---------------------------- MODULE Spec2Model ----------------------------
(***************************************************************************)
(* Model of the TEMPORA scheduling and optimization engine                 *)
(* (src/backend/optimizations.py, src/backend/scheduling/*.py,             *)
(* src/backend/utils/*.py, DatabaseManager.check_conflicts).               *)
(*                                                                         *)
(* Time is an absolute number of minutes: day * 1440 + minute of the day.  *)
(* Days are counted from the Monday of the week the optimizer is run on.   *)
(* All inputs are aligned to whole minutes, so datetime.max.time()         *)
(* (23:59:59.999999) bounds a minute-aligned end exactly like 23:59.       *)
(* Scores that the code computes as floats are kept exact by scaling:      *)
(* the optimizer's _score_slot by 24, the slot finder's score by 2.        *)
(***************************************************************************)
EXTENDS Integers, Sequences, FiniteSets, TLC

VARIABLES pc,      \* position of the request being served
          events,  \* the event list handed to OptimizationEngine / the rows of the store
          before,  \* the event rows as fetched at the start of the run
          prefs,   \* user preferences: work window, sleep window, rounding
          today,   \* datetime.now().date() captured by the engine
          policy,  \* name of the optimization policy that ran
          mods,    \* the Modifications it returned
          req,     \* the request of a scheduling handler, or the scorer's arguments
          now,     \* datetime.now() read by a scheduling handler
          utcDay,  \* the date of SQLite's datetime('now'), which is UTC
          curDate, \* current_date of the recurring loop
          res      \* what the handler returned and committed

vars == <<pc, events, before, prefs, today, policy, mods, req, now, utcDay, curDate, res>>

---------------------------------------------------------------------------
(* Time helpers                                                            *)

DayMinutes == 1440

Date(t) == t \div DayMinutes

Tod(t) == t % DayMinutes

Combine(d, tod) == d * DayMinutes + tod

HM(h, m) == h * 60 + m

Abs(x) == IF x < 0 THEN -x ELSE x

Min2(a, b) == IF a <= b THEN a ELSE b

Max2(a, b) == IF a >= b THEN a ELSE b

NoSlot == -1000000

\* datetime.max.time() on minute-aligned values
MaxTimeOfDay == 1439

---------------------------------------------------------------------------
(* Generic sequence helpers                                                *)

RECURSIVE SumSeq(_)
SumSeq(s) == IF s = <<>> THEN 0 ELSE Head(s) + SumSeq(Tail(s))

\* stable insertion of x into a sequence sorted by the key field k
\* (Python's sorted() and list.sort() are stable)
RECURSIVE InsertByKey(_, _)
InsertByKey(sorted, x) ==
    IF sorted = <<>> THEN <<x>>
    ELSE IF x.k < Head(sorted).k
         THEN <<x>> \o sorted
         ELSE <<Head(sorted)>> \o InsertByKey(Tail(sorted), x)

RECURSIVE SortByKey(_)
SortByKey(s) ==
    IF s = <<>> THEN <<>>
    ELSE InsertByKey(SortByKey(SubSeq(s, 1, Len(s) - 1)), s[Len(s)])

\* index of the first maximum (Python's max(), and sort(reverse=True)[0])
FirstMaxIdx(s) ==
    CHOOSE i \in 1..Len(s) :
        \A j \in 1..Len(s) :
            s[j].score < s[i].score \/ (s[j].score = s[i].score /\ i <= j)

\* index of the first minimum of a sequence of numbers (Python's min())
FirstMinIdx(s) ==
    CHOOSE i \in 1..Len(s) :
        \A j \in 1..Len(s) : s[i] < s[j] \/ (s[i] = s[j] /\ i <= j)

Range(s) == {s[i] : i \in 1..Len(s)}

---------------------------------------------------------------------------
(* OptimizationEngine helpers                                              *)

Dur(e) == e.e - e.s

IsPastEventBroken(e, td) == FALSE

\* _is_past_event: start.date() < self.today
IsPastEvent(e, td) == Date(e.s) < td

\* a conflict test that accepts every span
HasNoConflictsBroken(evs, s, e, excl) == TRUE

\* _has_no_conflicts over the engine's current event list
HasNoConflicts(evs, s, e, excl) ==
    \A i \in 1..Len(evs) :
        evs[i].id = excl \/ ~(s < evs[i].e /\ e > evs[i].s)

SlotStride == 15

\* _find_all_available_slots: starts on the 15-minute stride from
\* target_date+work_start with start+duration <= target_date+work_end
FindAllAvailableSlots(evs, d, dur, ws, we, excl) ==
    LET first == Combine(d, ws)
        last  == Combine(d, we) - dur
        n     == IF last >= first THEN (last - first) \div SlotStride + 1 ELSE 0
        grid  == [k \in 1..n |-> first + SlotStride * (k - 1)]
    IN  SelectSeq(grid, LAMBDA t : HasNoConflicts(evs, t, t + dur, excl))

\* 1. TIME OF DAY FIT of _score_slot
TimeOfDayFit(cat, h) ==
    IF cat \in {"Work", "Meeting"}
    THEN (IF 9 <= h /\ h <= 14 THEN 50 ELSE IF 14 < h /\ h <= 17 THEN 30 ELSE 10)
    ELSE IF cat \in {"Personal", "Recreational"}
    THEN (IF 14 <= h /\ h <= 20 THEN 50
          ELSE IF (12 <= h /\ h < 14) \/ (20 < h /\ h <= 22) THEN 30 ELSE 10)
    ELSE IF cat = "Meal"
    THEN (IF h \in {7, 8, 12, 13, 18, 19} THEN 50
          ELSE IF h \in {6, 9, 11, 14, 17, 20} THEN 30 ELSE 10)
    ELSE (IF 9 <= h /\ h <= 17 THEN 30 ELSE 10)

\* _score_slot, times 24 (centrality is 30 - 5 * hours from the work centre)
ScoreSlot(evs, s, e, cat, excl, p) ==
    LET wsdt == Combine(Date(s), p.ws)
        wedt == Combine(Date(s), p.we)
        cent == IF s >= wsdt /\ e <= wedt
                THEN Max2(0, 720 - Abs((s + e) - (wsdt + wedt)))
                ELSE 0
        near == Cardinality({i \in 1..Len(evs) :
                    /\ evs[i].id # excl
                    /\ Min2(Abs(evs[i].s - e), Abs(evs[i].e - s)) < 120})
    IN  24 * TimeOfDayFit(cat, Tod(s) \div 60) + cent + 24 * Max2(0, 20 - 5 * near)

\* the slot's time of day is inside [a, b), or inside the overnight window
InWindow(t, a, b) ==
    IF b <= a THEN (t >= a \/ t < b) ELSE (a <= t /\ t < b)

NoWindow == <<>>

Scored(slots, evs, dur, cat, excl, p, bonus, level) ==
    [k \in 1..Len(slots) |->
        [start |-> slots[k],
         score |-> ScoreSlot(evs, slots[k], slots[k] + dur, cat, excl, p) + 24 * bonus,
         level |-> level]]

\* the candidate list of _find_next_available_slot, in the order it is built
CandidateSlots(evs, dur, d, ws, we, excl, cat, pw, p) ==
    LET hasPw == pw # NoWindow
        ps == IF hasPw THEN pw[1] ELSE 0
        pe == IF hasPw THEN pw[2] ELSE 0
        \* level 2 search window
        es2 == IF ps \div 60 > 0 THEN ps - 60 ELSE ps
        ee2 == IF pe \div 60 < 23 THEN pe + 60 ELSE pe
        \* the expanded window of the level 3 / level 4 skip tests
        es3 == (ps - 60) % DayMinutes
        ee3 == (pe + 60) % DayMinutes
        inExact(t)    == InWindow(Tod(t), ps, pe)
        inExpanded(t) == IF pe <= ps THEN (Tod(t) >= es3 \/ Tod(t) < ee3)
                         ELSE (es3 <= Tod(t) /\ Tod(t) < ee3)
        l1 == IF hasPw THEN FindAllAvailableSlots(evs, d, dur, ps, pe, excl) ELSE <<>>
        l2 == IF hasPw /\ (es2 # ps \/ ee2 # pe)
              THEN SelectSeq(FindAllAvailableSlots(evs, d, dur, es2, ee2, excl),
                             LAMBDA t : ~inExact(t))
              ELSE <<>>
        l3 == SelectSeq(FindAllAvailableSlots(evs, d, dur, ws, we, excl),
                        LAMBDA t : ~(hasPw /\ (inExact(t) \/ inExpanded(t))))
        l4 == SelectSeq(FindAllAvailableSlots(evs, d, dur, 0, MaxTimeOfDay, excl),
                        LAMBDA t : /\ ~(ws <= Tod(t) /\ Tod(t) < we)
                                   /\ ~(hasPw /\ inExpanded(t)))
    IN  Scored(l1, evs, dur, cat, excl, p, 50, "exact_preferred")
        \o Scored(l2, evs, dur, cat, excl, p, 35, "expanded_preferred")
        \o Scored(l3, evs, dur, cat, excl, p, 10, "work_hours")
        \o Scored(l4, evs, dur, cat, excl, p, 0, "full_day")

\* _find_next_available_slot: the start of the best-scoring candidate
\* (preferred_start is not read by the code)
FindNextAvailableSlot(evs, dur, d, ws, we, excl, cat, pw, p) ==
    LET c == CandidateSlots(evs, dur, d, ws, we, excl, cat, pw, p)
    IN  IF c = <<>> THEN NoSlot ELSE c[FirstMaxIdx(c)].start

\* _is_during_sleep
IsDuringSleep(t, ss, se) ==
    IF ss > se THEN (Tod(t) >= ss \/ Tod(t) < se) ELSE (ss <= Tod(t) /\ Tod(t) < se)

\* a Modification whose new_end is not new_start + duration
ModStretched(ev, ns, ne) == [id |-> ev.id, os |-> ev.s, oe |-> ev.e, ns |-> ns, ne |-> ne + 1]

Mod(ev, ns, ne) == [id |-> ev.id, os |-> ev.s, oe |-> ev.e, ns |-> ns, ne |-> ne]

\* the week of the run: seven days from the earliest event date
WeekStart(evs) ==
    LET ds == {Date(evs[i].s) : i \in 1..Len(evs)}
    IN  CHOOSE d \in ds : \A x \in ds : d <= x


---------------------------------------------------------------------------
(* OptimizationEngine policies.  Each returns the list of Modifications.   *)

\* the movable events of a policy: not locked and not past
Movable(evs, td) == SelectSeq(evs, LAMBDA e : ~e.locked /\ ~IsPastEvent(e, td))

PriorityOrder(pri) ==
    CASE pri = "high" -> 0 [] pri = "medium" -> 1 [] pri = "low" -> 2 [] OTHER -> 1

TypeOrder(typ) ==
    CASE typ = "fixed" -> 0 [] typ = "recurring" -> 1 [] typ = "floating" -> 2 [] OTHER -> 2

CategoryOrder(cat) ==
    CASE cat = "Work" -> 0 [] cat = "Meeting" -> 1 [] cat = "Recreational" -> 2
      [] cat = "Meal" -> 3 [] cat = "Personal" -> 4 [] OTHER -> 4

\* weight of the leading components of sort_key, above any start time
KeyBase == 100 * DayMinutes

\* a key that orders the events by their original start alone
StartKeyBroken(e) == e.s

\* sort_key of smart_optimize_week: (priority, type, category, original start)
SortKey(e) ==
    ((PriorityOrder(e.pri) * 3 + TypeOrder(e.typ)) * 5 + CategoryOrder(e.cat)) * KeyBase + e.s

Unkeyed(s) == [i \in 1..Len(s) |-> s[i].v]

SortedEvents(evs, td) ==
    LET m == Movable(evs, td)
    IN  Unkeyed(SortByKey([i \in 1..Len(m) |-> [k |-> SortKey(m[i]), v |-> m[i]]]))

ByStart(s) == Unkeyed(SortByKey([i \in 1..Len(s) |-> [k |-> s[i].s, v |-> s[i]]]))

WeekLength == 7

\* daily_durations over the week days, from the simulated schedule
DailyDurations(sim, ws0) ==
    [i \in 1..WeekLength |->
        SumSeq([j \in 1..Len(sim) |->
            IF Date(sim[j].s) = ws0 + i - 1 THEN Dur(sim[j]) ELSE 0])]

\* a choice that takes the latest of the least loaded days
LatestMinDayBroken(sim, ws0) ==
    LET dd == DailyDurations(sim, ws0)
    IN  ws0 + (CHOOSE i \in 1..WeekLength :
                  \A j \in 1..WeekLength : dd[i] < dd[j] \/ (dd[i] = dd[j] /\ i >= j)) - 1

FirstDayBroken(sim, ws0) == ws0

\* best_day = min(week_days, key=daily_durations)
BestDay(sim, ws0) ==
    LET dd == DailyDurations(sim, ws0) IN ws0 + FirstMinIdx(dd) - 1

SimEvent(ev, ns) ==
    [id |-> ev.id, s |-> ns, e |-> ns + Dur(ev), cat |-> ev.cat, locked |-> FALSE,
     pri |-> ev.pri, typ |-> ev.typ, pw |-> NoWindow]

\* STEP 3 of smart_optimize_week: one event at a time against the simulation
RECURSIVE SmartLoop(_, _, _, _, _, _)
SmartLoop(sorted, i, sim, out, ws0, p) ==
    IF i > Len(sorted) THEN [mods |-> out, sim |-> sim]
    ELSE LET ev == sorted[i]
             bd == BestDay(sim, ws0)
             ns == FindNextAvailableSlot(sim, Dur(ev), bd, p.ws, p.we, ev.id,
                                         ev.cat, ev.pw, p)
         IN  IF ns # NoSlot
             THEN SmartLoop(sorted, i + 1, Append(sim, SimEvent(ev, ns)),
                            Append(out, Mod(ev, ns, ns + Dur(ev))), ws0, p)
             ELSE SmartLoop(sorted, i + 1, sim, out, ws0, p)

\* smart_optimize_week: the simulation starts from the locked events only
SmartRun(evs, td, p) ==
    IF evs = <<>> \/ Movable(evs, td) = <<>>
    THEN [mods |-> <<>>, sim |-> <<>>]
    ELSE SmartLoop(SortedEvents(evs, td), 1, SelectSeq(evs, LAMBDA e : e.locked),
                   <<>>, WeekStart(evs), p)

SmartOptimizeWeek(evs, td, p) == SmartRun(evs, td, p).mods

\* the distinct values of a list in the order of first appearance (dict keys)
RECURSIVE FirstSeen(_, _)
FirstSeen(s, acc) ==
    IF s = <<>> THEN acc
    ELSE FirstSeen(Tail(s), IF Head(s) \in Range(acc) THEN acc ELSE Append(acc, Head(s)))

ConsolidateBuffer == 15

\* the per-category loop of consolidate_schedule
RECURSIVE ConsolidateLoop(_, _, _, _, _, _, _, _, _, _)
ConsolidateLoop(evs, cevs, i, dayIdx, today_n, cur, perDay, ws0, p, out) ==
    IF i > Len(cevs) THEN out
    ELSE LET ev   == cevs[i]
             move == today_n >= perDay \/ Tod(cur) > p.we
             di   == IF move THEN (dayIdx + 1) % WeekLength ELSE dayIdx
             ct   == IF move THEN Combine(ws0 + di, p.ws) ELSE cur
             n0   == IF move THEN 0 ELSE today_n
             ns   == FindNextAvailableSlot(evs, Dur(ev), ws0 + di, p.ws, p.we, ev.id,
                                           ev.cat, ev.pw, p)
         IN  IF ns # NoSlot /\ Date(ns) = ws0 + di
             THEN ConsolidateLoop(evs, cevs, i + 1, di, n0 + 1,
                                  ns + Dur(ev) + ConsolidateBuffer, perDay, ws0, p,
                                  IF Abs(ns - ev.s) > 1
                                  THEN Append(out, Mod(ev, ns, ns + Dur(ev))) ELSE out)
             ELSE ConsolidateLoop(evs, cevs, i + 1, di, n0, ct, perDay, ws0, p, out)

RECURSIVE ConsolidateCats(_, _, _, _, _, _)
ConsolidateCats(evs, cats, td, ws0, p, out) ==
    IF cats = <<>> THEN out
    ELSE LET cevs == ByStart(SelectSeq(Movable(evs, td), LAMBDA e : e.cat = Head(cats)))
         IN  ConsolidateCats(evs, Tail(cats), td, ws0, p,
                 IF Len(cevs) <= 1 THEN out
                 ELSE ConsolidateLoop(evs, cevs, 1, 0, 0, Combine(ws0, p.ws),
                                      Max2(1, Len(cevs) \div 5), ws0, p, out))

\* consolidate_schedule
ConsolidateSchedule(evs, td, p) ==
    IF evs = <<>> THEN <<>>
    ELSE ConsolidateCats(evs, FirstSeen([i \in 1..Len(Movable(evs, td)) |-> Movable(evs, td)[i].cat], <<>>),
                         td, WeekStart(evs), p, <<>>)

MaxContinuousWorkMinutes == 240

MergeGapLimit == 60

MergeBuffer == 5

\* the pair loop of group_deep_work over one day's Work events, sorted by start
RECURSIVE DeepWorkPairs(_, _, _, _)
DeepWorkPairs(evs, devs, i, out) ==
    IF i > Len(devs) - 1 THEN out
    ELSE LET cur == devs[i]
             nxt == devs[i + 1]
             gap == nxt.s - cur.e
             ns  == cur.e + MergeBuffer
         IN  DeepWorkPairs(evs, devs, i + 1,
                 IF /\ 0 < gap /\ gap < MergeGapLimit
                    /\ Dur(cur) + Dur(nxt) < MaxContinuousWorkMinutes
                    /\ HasNoConflicts(evs, ns, ns + Dur(nxt), nxt.id)
                 THEN Append(out, Mod(nxt, ns, ns + Dur(nxt))) ELSE out)

RECURSIVE DeepWorkDays(_, _, _, _)
DeepWorkDays(evs, work, days, out) ==
    IF days = <<>> THEN out
    ELSE LET devs == ByStart(SelectSeq(work, LAMBDA e : Date(e.s) = Head(days)))
         IN  DeepWorkDays(evs, work, Tail(days),
                 IF Len(devs) < 2 THEN out ELSE DeepWorkPairs(evs, devs, 1, out))

\* group_deep_work
GroupDeepWork(evs, td, p) ==
    LET work == SelectSeq(Movable(evs, td), LAMBDA e : e.cat = "Work")
    IN  DeepWorkDays(evs, work, FirstSeen([i \in 1..Len(work) |-> Date(work[i].s)], <<>>), <<>>)

BufferMinutes == 10

\* the pair loop of add_planning_buffer over the meetings sorted by start
RECURSIVE BufferPairs(_, _, _, _, _, _)
BufferPairs(evs, ms, i, td, p, out) ==
    IF i > Len(ms) - 1 THEN out
    ELSE LET cur == ms[i]
             nxt == ms[i + 1]
             gap == nxt.s - cur.e
             ns  == nxt.s + (BufferMinutes - gap)
             fb  == FindNextAvailableSlot(evs, Dur(nxt), Date(ns), p.ws, p.we, nxt.id,
                                          "Meeting", nxt.pw, p)
         IN  BufferPairs(evs, ms, i + 1, td, p,
                 IF \/ cur.locked \/ nxt.locked
                    \/ IsPastEvent(cur, td) \/ IsPastEvent(nxt, td)
                    \/ ~(0 <= gap /\ gap < BufferMinutes)
                 THEN out
                 ELSE IF HasNoConflicts(evs, ns, ns + Dur(nxt), nxt.id)
                      THEN Append(out, Mod(nxt, ns, ns + Dur(nxt)))
                      ELSE IF fb # NoSlot
                           THEN Append(out, Mod(nxt, fb, fb + Dur(nxt)))
                           ELSE out)

\* add_planning_buffer
AddPlanningBuffer(evs, td, p) ==
    LET ms == ByStart(SelectSeq(evs, LAMBDA e : e.cat = "Meeting"))
    IN  IF Len(ms) < 2 THEN <<>> ELSE BufferPairs(evs, ms, 1, td, p, <<>>)

RecoveryTargetMinutes == 600

LongBlockMinutes == 180

MaxReduction == 30

MinBlockMinutes == 60

\* current recreational + personal minutes (locked and past events included)
RecreationalMinutes(evs) ==
    SumSeq([i \in 1..Len(evs) |->
        IF evs[i].cat \in {"Recreational", "Personal"} THEN Dur(evs[i]) ELSE 0])

\* a shrinking loop that does not look at the deficit
RECURSIVE RecoveryLoopBroken(_, _, _, _, _)
RecoveryLoopBroken(evs, long, i, deficit, out) ==
    IF i > Len(long) THEN out
    ELSE RecoveryLoopBroken(evs, long, i + 1, deficit,
            Append(out, Mod(long[i], long[i].s, long[i].e - MaxReduction)))

\* the shrinking loop of add_recovery_time, longest block first
RECURSIVE RecoveryLoop(_, _, _, _, _)
RecoveryLoop(evs, long, i, deficit, out) ==
    IF i > Len(long) \/ deficit <= 0 THEN out
    ELSE LET ev  == long[i]
             red == Min2(MaxReduction, deficit)
             ne  == ev.e - red
             ok  == /\ ne - ev.s >= MinBlockMinutes
                    /\ HasNoConflicts(evs, ev.s, ne, ev.id)
         IN  RecoveryLoop(evs, long, i + 1, IF ok THEN deficit - red ELSE deficit,
                          IF ok THEN Append(out, Mod(ev, ev.s, ne)) ELSE out)

\* add_recovery_time
AddRecoveryTime(evs, td, p) ==
    LET deficit == RecoveryTargetMinutes - RecreationalMinutes(evs)
        cands   == SelectSeq(evs, LAMBDA e : e.cat = "Work")
                   \o SelectSeq(evs, LAMBDA e : e.cat = "Meeting")
        long    == SelectSeq(Movable(cands, td), LAMBDA e : Dur(e) >= LongBlockMinutes)
        sorted  == Unkeyed(SortByKey([i \in 1..Len(long) |-> [k |-> 0 - Dur(long[i]), v |-> long[i]]]))
    IN  IF deficit <= 0 THEN <<>> ELSE RecoveryLoop(evs, sorted, 1, deficit, <<>>)

\* fix_sleep_schedule: events that start during sleep are relocated on their
\* day, or on the following day when the first search finds nothing
RECURSIVE SleepLoop(_, _, _, _, _)
SleepLoop(evs, i, td, p, out) ==
    IF i > Len(evs) THEN out
    ELSE LET ev == evs[i]
             s1 == FindNextAvailableSlot(evs, Dur(ev), Date(ev.s), p.ws, p.we, ev.id,
                                         ev.cat, ev.pw, p)
             s2 == FindNextAvailableSlot(evs, Dur(ev), Date(ev.s) + 1, p.ws, p.we, ev.id,
                                         ev.cat, ev.pw, p)
         IN  SleepLoop(evs, i + 1, td, p,
                 IF ev.locked \/ IsPastEvent(ev, td) \/ ~IsDuringSleep(ev.s, p.ss, p.se)
                 THEN out
                 ELSE IF s1 # NoSlot THEN Append(out, Mod(ev, s1, s1 + Dur(ev)))
                      ELSE IF s2 # NoSlot THEN Append(out, Mod(ev, s2, s2 + Dur(ev)))
                           ELSE out)

FixSleepSchedule(evs, td, p) == SleepLoop(evs, 1, td, p, <<>>)

\* the caller's commit: every Modification rewrites its event's span
RECURSIVE ApplyMods(_, _)
ApplyMods(evs, ms) ==
    IF ms = <<>> THEN evs
    ELSE ApplyMods([i \in 1..Len(evs) |->
                        IF evs[i].id = Head(ms).id
                        THEN [evs[i] EXCEPT !.s = Head(ms).ns, !.e = Head(ms).ne]
                        ELSE evs[i]],
                   Tail(ms))


---------------------------------------------------------------------------
(* The optimizer run: an event list of the week, then one policy.          *)

DefaultPrefs == [ws |-> HM(9, 0), we |-> HM(18, 0), ss |-> HM(23, 0), se |-> HM(7, 0), rt |-> 5]

Ev(id, d, tod, dur, cat, locked, pw) ==
    [id |-> id, s |-> Combine(d, tod), e |-> Combine(d, tod) + dur, cat |-> cat,
     locked |-> locked, pri |-> "medium", typ |-> "fixed", pw |-> pw]

\* the events a week's list is drawn from
Shapes ==
    << Ev(1, 1, HM(9, 0), 105, "Work", FALSE, NoWindow),
       Ev(2, 1, HM(10, 55), 105, "Work", FALSE, NoWindow),
       Ev(3, 1, HM(12, 40), 105, "Work", FALSE, NoWindow),
       Ev(4, 1, HM(12, 30), 30, "Meeting", FALSE, NoWindow),
       Ev(5, 1, HM(13, 0), 30, "Meeting", FALSE, NoWindow),
       Ev(6, 1, HM(13, 30), 30, "Meeting", FALSE, NoWindow),
       Ev(7, 1, HM(9, 0), 540, "Work", TRUE, NoWindow),
       Ev(8, 1, HM(23, 30), 60, "Personal", FALSE, NoWindow),
       Ev(9, 0, HM(13, 0), 60, "Personal", FALSE, NoWindow),
       Ev(10, 2, HM(9, 0), 210, "Work", FALSE, NoWindow),
       Ev(11, 1, HM(5, 0), 60, "Meeting", FALSE, <<HM(10, 0), HM(12, 0)>>),
       Ev(12, 2, HM(13, 0), 150, "Work", FALSE, NoWindow),
       Ev(13, 2, HM(15, 40), 150, "Work", FALSE, NoWindow),
       Ev(14, 2, HM(9, 0), DayMinutes, "Personal", FALSE, NoWindow) >>

MaxEvents == 3

MaxToday == 1

\* no two events of the list share a minute
OverlapFree(evs) ==
    \A i, j \in 1..Len(evs) :
        i < j => ~(evs[i].s < evs[j].e /\ evs[j].s < evs[i].e)

\* rows come back from the store ordered by start_time; the schedules are the
\* overlap-free ones
EventLists ==
    {l \in {ByStart(SelectSeq(Shapes, LAMBDA e : e.id \in S)) :
                S \in {X \in SUBSET (1..Len(Shapes)) : Cardinality(X) \in 1..MaxEvents}} :
        OverlapFree(l)}

NoRequest == [kind |-> "none"]

NoResult == [ok |-> FALSE]

InitOpt ==
    /\ pc = "idle"
    /\ events \in EventLists
    /\ before = <<>>
    /\ prefs = DefaultPrefs
    /\ today \in 0..MaxToday
    /\ policy = "none"
    /\ mods = <<>>
    /\ req = NoRequest
    /\ now = 0
    /\ utcDay = 0
    /\ curDate = 0
    /\ res = NoResult

\* apply_optimization: fetch the week's events, run the policy, and unless the
\* call is a preview write every Modification back to the store
Optimize(name, ms, preview) ==
    /\ pc = "idle"
    /\ pc' = "done"
    /\ policy' = name
    /\ before' = events
    /\ mods' = ms
    /\ events' = IF preview THEN events ELSE ByStart(ApplyMods(events, ms))
    /\ UNCHANGED <<prefs, today, req, now, utcDay, curDate, res>>

DoSmartOptimizeWeek ==
    \E preview \in BOOLEAN :
        Optimize("smart_optimize_week", SmartOptimizeWeek(events, today, prefs), preview)

DoConsolidateSchedule ==
    \E preview \in BOOLEAN :
        Optimize("consolidate_schedule", ConsolidateSchedule(events, today, prefs), preview)

DoGroupDeepWork ==
    \E preview \in BOOLEAN :
        Optimize("group_deep_work", GroupDeepWork(events, today, prefs), preview)

DoAddPlanningBuffer ==
    \E preview \in BOOLEAN :
        Optimize("add_planning_buffer", AddPlanningBuffer(events, today, prefs), preview)

DoAddRecoveryTime ==
    \E preview \in BOOLEAN :
        Optimize("add_recovery_time", AddRecoveryTime(events, today, prefs), preview)

DoFixSleepSchedule ==
    \E preview \in BOOLEAN :
        Optimize("fix_sleep_schedule", FixSleepSchedule(events, today, prefs), preview)

NextOpt ==
    \/ DoSmartOptimizeWeek
    \/ DoConsolidateSchedule
    \/ DoGroupDeepWork
    \/ DoAddPlanningBuffer
    \/ DoAddRecoveryTime
    \/ DoFixSleepSchedule

SpecOpt == InitOpt /\ [][NextOpt]_vars


(* Properties of one optimizer run                                         *)

\* the full post-plan event set: the fetched rows with every Modification applied
Planned == ApplyMods(before, mods)

ModIds == {mods[k].id : k \in 1..Len(mods)}

PolicyRan(name) == pc = "done" /\ policy = name

\* C1: for every policy and every overlap-free input, once all Modifications
\* of the run are applied no two events of the resulting set overlap
C1_NoOverlapAfterApply ==
    (pc = "done" /\ OverlapFree(before)) => OverlapFree(Planned)

\* C2: no Modification of any policy targets a locked event or an event whose
\* start date is before the engine's today
C2_NoLockedOrPastTarget ==
    pc = "done" =>
        \A k \in 1..Len(mods) : \A i \in 1..Len(before) :
            before[i].id = mods[k].id =>
                (~before[i].locked /\ Date(before[i].s) >= today)

\* a run that returned Modifications although the week holds a locked event
\* and an unlocked event dated before today
C2_Witness ==
    /\ pc = "done"
    /\ mods # <<>>
    /\ \E i \in 1..Len(before) : before[i].locked
    /\ \E i \in 1..Len(before) : ~before[i].locked /\ Date(before[i].s) < today

\* some minute of [s, e) lies in the daily sleep window
OverlapsSleep(s, e, p) == \E t \in s..(e - 1) : IsDuringSleep(t, p.ss, p.se)

\* C5: every Modification of fix_sleep_schedule gives a new span with zero
\* overlap with the sleep window
C5_SleepFixLeavesSleepWindow ==
    PolicyRan("fix_sleep_schedule") =>
        \A k \in 1..Len(mods) : ~OverlapsSleep(mods[k].ns, mods[k].ne, prefs)

\* the Work events after the run, by start time
PlannedWork == ByStart(SelectSeq(Planned, LAMBDA e : e.cat = "Work"))

\* PlannedWork[a..b] is one continuous block of a single day: every
\* consecutive gap is the merge buffer or less
ContinuousBlock(a, b) ==
    \A k \in a..(b - 1) :
        /\ Date(PlannedWork[k + 1].s) = Date(PlannedWork[a].s)
        /\ PlannedWork[k + 1].s - PlannedWork[k].e <= MergeBuffer

BlockMinutes(a, b) == SumSeq([k \in 1..(b - a + 1) |-> Dur(PlannedWork[a + k - 1])])

\* C6: after group_deep_work no continuous Work block that includes a moved
\* event lasts more than 240 minutes in total
C6_DeepWorkBlockCeiling ==
    PolicyRan("group_deep_work") =>
        \A a \in 1..Len(PlannedWork) : \A b \in a..Len(PlannedWork) :
            (/\ ContinuousBlock(a, b)
             /\ \E k \in a..b : PlannedWork[k].id \in ModIds)
            => BlockMinutes(a, b) <= MaxContinuousWorkMinutes

\* the meetings of the fetched week, by start time
MeetingsBefore == ByStart(SelectSeq(before, LAMBDA e : e.cat = "Meeting"))

PlannedOf(id) == Planned[CHOOSE i \in 1..Len(Planned) : Planned[i].id = id]

\* C7: after add_planning_buffer every pair of unlocked, non-past consecutive
\* meetings whose original gap was 0 <= g < 10 and whose later meeting got a
\* Modification is at least 10 minutes apart
C7_BufferedPairsApart ==
    PolicyRan("add_planning_buffer") =>
        \A i \in 1..(Len(MeetingsBefore) - 1) :
            LET a == MeetingsBefore[i]
                b == MeetingsBefore[i + 1]
                g == b.s - a.e
            IN  (/\ ~a.locked /\ ~b.locked
                 /\ Date(a.s) >= today /\ Date(b.s) >= today
                 /\ 0 <= g /\ g < BufferMinutes
                 /\ b.id \in ModIds)
                => \/ PlannedOf(b.id).s - PlannedOf(a.id).e >= BufferMinutes
                   \/ PlannedOf(a.id).s - PlannedOf(b.id).e >= BufferMinutes

---------------------------------------------------------------------------
(* Workload balancing: N movable events of one duration, nothing locked    *)

MaxN == 14

Durations == {30, 60, 120}

Categories == {"Work", "Meeting", "Recreational", "Meal", "Personal"}

\* N identical events laid out overlap-free in the week, either one row per
\* day (09:00, 12:00, 15:00) or packed four a day from the first day
IdenticalEvents(n, dur, cat, packed, first) ==
    ByStart([k \in 1..n |->
        IF packed
        THEN Ev(k, first + (k - 1) \div 4,
                HM(9, 0) + HM(3, 0) * ((k - 1) % 4), dur, cat, FALSE, NoWindow)
        ELSE Ev(k, (k - 1) % WeekLength,
                HM(9, 0) + HM(3, 0) * ((k - 1) \div WeekLength), dur, cat, FALSE, NoWindow)])

InitBalance ==
    /\ pc = "idle"
    /\ \E n \in 1..MaxN, dur \in Durations, cat \in Categories,
          packed \in BOOLEAN, first \in 0..1 :
            events = IdenticalEvents(n, dur, cat, packed, first)
    /\ before = <<>>
    /\ prefs = DefaultPrefs
    /\ today = 0
    /\ policy = "none"
    /\ mods = <<>>
    /\ req = NoRequest
    /\ now = 0
    /\ utcDay = 0
    /\ curDate = 0
    /\ res = NoResult

NextBalance == DoSmartOptimizeWeek

SpecBalance == InitBalance /\ [][NextBalance]_vars

\* number of Modifications whose new start falls on day d
CountOn(d) == Cardinality({k \in 1..Len(mods) : Date(mods[k].ns) = d})

WeekDays == WeekStart(before)..(WeekStart(before) + WeekLength - 1)

\* C8: with N identical-duration movable events, nothing locked and every
\* event placed, the per-day counts of the new start dates over the 7 week
\* days differ by at most 1; 14 one-hour events give exactly 2 a day
C8_BalancedCounts ==
    (PolicyRan("smart_optimize_week") /\ Len(mods) = Len(before)) =>
        /\ \A d1, d2 \in WeekDays : CountOn(d1) - CountOn(d2) <= 1
        /\ \A k \in 1..Len(mods) : Date(mods[k].ns) \in WeekDays
        /\ (Len(before) = 14 /\ Dur(before[1]) = 60) => \A d \in WeekDays : CountOn(d) = 2

\* the run over 14 one-hour events, every one of them placed
C8_Witness ==
    /\ PolicyRan("smart_optimize_week")
    /\ Len(before) = 14
    /\ Dur(before[1]) = 60
    /\ Len(mods) = 14
    /\ \A d \in WeekDays : CountOn(d) = 2

---------------------------------------------------------------------------
(* scheduling/slot_finder.py and the helpers it calls.  Scores are kept    *)
(* times 2, so that the proximity tiebreaker 2.0 / 1.5 / 1.0 / 0.5 is an   *)
(* integer.                                                                *)

\* round_to_interval: an aligned minute is returned as it is, any other is
\* rounded up inside its hour
RoundToInterval(t, m) ==
    LET minute == Tod(t) % 60
    IN  IF minute % m = 0 THEN t
        ELSE (t - minute) + (minute \div m + 1) * m

\* is_during_sleep of utils/time_validators.py
DuringSleep(t, p) ==
    IF p.ss > p.se THEN (Tod(t) >= p.ss \/ Tod(t) < p.se)
    ELSE (p.ss <= Tod(t) /\ Tod(t) < p.se)

\* adjust_to_work_hours
AdjustToWorkHours(t, p) ==
    IF Tod(t) < p.ws THEN Combine(Date(t), p.ws)
    ELSE IF Tod(t) >= p.we THEN Combine(Date(t) + 1, p.ws)
    ELSE t

\* check_conflicts: an overlapping row, among the rows whose end_time string
\* is >= SQLite's datetime('now'); 'T' sorts after ' ', so a row counts exactly
\* when its end date is not before the UTC date
CheckConflicts(evs, s, e, uday) ==
    \E i \in 1..Len(evs) :
        evs[i].s < e /\ evs[i].e > s /\ Date(evs[i].e) >= uday

NoTime == -1

\* FACTOR 1 of score_slot_quality: the preferred-time ladder
PreferredLadder(t, ps, pe, p) ==
    LET overnight == pe <= ps
        inPref    == IF overnight THEN (t >= ps \/ t < pe) ELSE (ps <= t /\ t < pe)
        distance  == IF overnight
                     THEN (IF t >= ps THEN Min2(t - pe, ps - t)
                           ELSE Min2(ps - t, t + (DayMinutes - pe)))
                     ELSE (IF t < ps THEN ps - t ELSE t - pe)
    IN  IF inPref THEN 50
        ELSE IF distance <= 60 THEN 35
        ELSE IF distance <= 120 THEN 20
        ELSE IF p.ws <= t /\ t < p.we THEN 10
        ELSE 0

\* FACTOR 2: work hours fit
WorkHoursFit(s, e, p) ==
    IF p.ws <= Tod(s) /\ Tod(s) < p.we
    THEN LET edge == Min2(s - Combine(Date(s), p.ws), Combine(Date(s), p.we) - e)
         IN  IF edge >= 60 THEN 30 ELSE IF edge >= 30 THEN 25 ELSE 20
    ELSE 5

NoGap == 999

MinOf(S) == CHOOSE x \in S : \A y \in S : x <= y

\* FACTOR 3: event spacing, from twice the average gap
EventSpacing(s, e, all) ==
    LET before_ == {s - all[i].e : i \in {j \in 1..Len(all) : all[j].e <= s}}
        after_  == {all[i].s - e : i \in {j \in 1..Len(all) : all[j].s >= e}}
        gap2    == MinOf(before_ \cup {NoGap}) + MinOf(after_ \cup {NoGap})
    IN  IF gap2 >= 120 THEN 20 ELSE IF gap2 >= 60 THEN 15 ELSE IF gap2 >= 30 THEN 8 ELSE 0

\* FACTOR 4: daily workload balance
WorkloadBalance(s, all) ==
    LET dayMinutes == SumSeq([i \in 1..Len(all) |->
                          IF Date(all[i].s) = Date(s) THEN Dur(all[i]) ELSE 0])
    IN  IF dayMinutes < 180 THEN 15 ELSE IF dayMinutes < 300 THEN 12
        ELSE IF dayMinutes < 420 THEN 8 ELSE 4

\* FACTOR 5: time of day preference
TimeOfDayPreference(s) ==
    LET hour == Tod(s) \div 60
    IN  IF hour = 10 \/ hour = 14 \/ hour = 15 THEN 10
        ELSE IF hour = 9 \/ (11 <= hour /\ hour < 14) \/ hour = 16 THEN 7
        ELSE 3

\* FACTOR 6: proximity, times 2
Proximity2(s, es) ==
    LET days == Date(s) - Date(es)
    IN  IF days = 0 THEN 4 ELSE IF days <= 3 THEN 3 ELSE IF days <= 7 THEN 2
        ELSE IF days <= 14 THEN 1 ELSE 0

\* score_slot_quality, times 2; pw is the enabled preferred window or NoWindow
ScoreSlotQuality(s, e, all, p, pw, es) ==
    (IF pw # NoWindow
     THEN 2 * PreferredLadder(Tod(s), pw[1], pw[2], p)
     ELSE 2 * (WorkHoursFit(s, e, p) + EventSpacing(s, e, all)
               + WorkloadBalance(s, all) + TimeOfDayPreference(s)))
    + (IF es # NoTime THEN Proximity2(s, es) ELSE 0)

MaxCandidates == 50

\* steps after which a scan that has not ended never will: a pass that jumps
\* back to the wake time repeats one day of at most 96 quarter-hour steps,
\* and 50 passes that each add a slot fill the candidate list
ScanFuel == 5000

Diverged == -2000000

\* one turn of the while loop of find_available_slot; c holds the call's
\* arguments and what it read from the store
ScanStep(st, c) ==
    IF st.done THEN st
    ELSE IF ~(st.cur + c.dur <= c.end /\ Len(st.acc) < MaxCandidates)
    THEN [st EXCEPT !.done = TRUE]
    ELSE IF DuringSleep(st.cur, c.p)
    THEN LET wake == Combine(Date(st.cur), c.p.se)
             fwd  == IF wake < c.start THEN wake + DayMinutes ELSE wake
         IN  [st EXCEPT !.cur = RoundToInterval(fwd, c.p.rt)]
    ELSE IF DuringSleep(st.cur + c.dur, c.p)
    THEN [st EXCEPT !.cur = RoundToInterval(
                                AdjustToWorkHours(st.cur + DayMinutes, c.p), c.p.rt)]
    ELSE [st EXCEPT !.cur = st.cur + c.p.rt,
                    !.acc = IF CheckConflicts(c.evs, st.cur, st.cur + c.dur, c.uday)
                            THEN st.acc ELSE Append(st.acc, st.cur)]

\* n turns of the loop
RECURSIVE ScanSteps(_, _, _)
ScanSteps(st, n, c) ==
    IF st.done \/ n = 0 THEN st
    ELSE IF n = 1 THEN ScanStep(st, c)
    ELSE ScanSteps(ScanSteps(st, n \div 2, c), n - n \div 2, c)

\* the end of find_available_slot: the first best-scoring candidate of the
\* finished scan.  Candidates are always scored without a preferred window.
BestCandidate(st, start, dur, evs, p) ==
    IF ~st.done THEN Diverged
    ELSE IF st.acc = <<>> THEN NoSlot
    ELSE IF Len(st.acc) = 1 THEN st.acc[1]
    ELSE st.acc[FirstMaxIdx([k \in 1..Len(st.acc) |->
                    [score |-> ScoreSlotQuality(st.acc[k], st.acc[k] + dur, evs, p,
                                                NoWindow, start)]])]

\* find_available_slot: the start of the best candidate, NoSlot when there is
\* none, Diverged when the loop never ends
FindAvailableSlot(start, end, dur, evs, p, uday) ==
    BestCandidate(
        ScanSteps([cur |-> RoundToInterval(start, p.rt), acc |-> <<>>, done |-> FALSE],
                  ScanFuel,
                  [start |-> start, end |-> end, dur |-> dur, evs |-> evs, p |-> p,
                   uday |-> uday]),
        start, dur, evs, p)

\* find_available_slot on a window, which the handlers skip when it is empty
TryWindow(a, b, dur, evs, p, uday) ==
    IF b > a THEN FindAvailableSlot(a, b, dur, evs, p, uday) ELSE NoSlot

NoDaySlot == [slot |-> NoSlot, level |-> "none"]

\* a search that lets the work-hours level win over the earlier levels
BestLevelBroken(s1, s2, s3, s4) ==
    IF s3 # NoSlot THEN [slot |-> s3, level |-> "work_hours"]
    ELSE IF s1 # NoSlot THEN [slot |-> s1, level |-> "exact"]
    ELSE IF s2 # NoSlot THEN [slot |-> s2, level |-> "expanded"]
    ELSE IF s4 # NoSlot THEN [slot |-> s4, level |-> "full_day"]
    ELSE [slot |-> NoSlot, level |-> "none"]

\* the first level that gave a slot
FirstLevel(s1, s2, s3, s4) ==
    IF s1 # NoSlot THEN [slot |-> s1, level |-> "exact"]
    ELSE IF s2 # NoSlot THEN [slot |-> s2, level |-> "expanded"]
    ELSE IF s3 # NoSlot THEN [slot |-> s3, level |-> "work_hours"]
    ELSE IF s4 # NoSlot THEN [slot |-> s4, level |-> "full_day"]
    ELSE NoDaySlot

---------------------------------------------------------------------------
(* scheduling/floating_handler.py                                          *)

\* earliest_start bounds a window from below on the first day only
FromEarliest(cd, x, r) == IF cd = Date(r.es) THEN Max2(x, r.es) ELSE x

\* the deadline bounds a window from above only when the window ends on the
\* deadline's date
ToDeadline(d, y, r) == IF d = Date(r.dl) THEN Min2(y, r.dl) ELSE y

\* the day a preferred window ends on
WindowEndDay(cd, pw) == IF pw[2] <= pw[1] THEN cd + 1 ELSE cd

\* the four levels tried on one day of handle_floating_event; r is the
\* request with earliest_start already clamped to now
FloatingDaySlot(cd, r, evs, p, uday) ==
    FirstLevel(
        TryWindow(FromEarliest(cd, Combine(cd, r.pw[1]), r),
                  ToDeadline(WindowEndDay(cd, r.pw),
                             Combine(WindowEndDay(cd, r.pw), r.pw[2]), r),
                  r.dur, evs, p, uday),
        TryWindow(FromEarliest(cd, Combine(cd, r.pw[1]) - 60, r),
                  ToDeadline(WindowEndDay(cd, r.pw),
                             Combine(WindowEndDay(cd, r.pw), r.pw[2]) + 60, r),
                  r.dur, evs, p, uday),
        TryWindow(FromEarliest(cd, Combine(cd, p.ws), r),
                  ToDeadline(cd, Combine(cd, p.we), r), r.dur, evs, p, uday),
        TryWindow(FromEarliest(cd, Combine(cd, 0), r),
                  ToDeadline(cd, Combine(cd, MaxTimeOfDay), r), r.dur, evs, p, uday))

DivergedCandidate == [start |-> Diverged, score |-> 0, level |-> "none"]

\* a day's slot joins the candidates with its score
WithCandidate(cands, d, r, evs, p) ==
    IF d.slot = NoSlot THEN cands
    ELSE Append(cands,
            [start |-> d.slot,
             score |-> ScoreSlotQuality(d.slot, d.slot + r.dur, evs, p, r.pw, r.es),
             level |-> d.level])

\* the per-day loop: one scored candidate for every day that has a slot
RECURSIVE FloatingCandidates(_, _, _, _, _, _)
FloatingCandidates(cd, cands, r, evs, p, uday) ==
    IF ~(cd <= Date(r.dl) /\ Len(cands) < MaxCandidates) THEN cands
    ELSE IF cands # <<>> /\ cands[Len(cands)].start = Diverged THEN <<DivergedCandidate>>
    ELSE FloatingCandidates(cd + 1,
            WithCandidate(cands, FloatingDaySlot(cd, r, evs, p, uday), r, evs, p),
            r, evs, p, uday)

Failed == [ok |-> FALSE]

Hung == [ok |-> FALSE, hung |-> TRUE]

Placed(s, e, level) == [ok |-> TRUE, s |-> s, e |-> e, level |-> level]

\* the choice among the days' candidates: the first best score
BestOfDays(c, dur) ==
    IF c = <<>> THEN Failed
    ELSE IF c[Len(c)].start = Diverged THEN Hung
    ELSE Placed(c[FirstMaxIdx(c)].start, c[FirstMaxIdx(c)].start + dur,
                c[FirstMaxIdx(c)].level)

\* the search without a preferred window: one call over the whole range
PlacedAt(s, dur) ==
    IF s = Diverged THEN Hung
    ELSE IF s = NoSlot THEN Failed
    ELSE Placed(s, s + dur, "no_preference")

\* the search of handle_floating_event once the request is validated and
\* earliest_start clamped
FloatingSearch(r, evs, p, uday) ==
    IF r.pw # NoWindow
    THEN BestOfDays(FloatingCandidates(Date(r.es), <<>>, r, evs, p, uday), r.dur)
    ELSE PlacedAt(FindAvailableSlot(r.es, r.dl, r.dur, evs, p, uday), r.dur)

\* a handler that searches without validating the request
SearchUnvalidated(r0, t, evs, p, uday) ==
    FloatingSearch([r0 EXCEPT !.es = Max2(r0.es, t)], evs, p, uday)

\* handle_floating_event: what it returns, with the span it commits
FloatingResult(r0, t, evs, p, uday) ==
    IF r0.dur <= 0 \/ r0.dl <= r0.es \/ r0.dl < t THEN Failed
    ELSE FloatingSearch([r0 EXCEPT !.es = Max2(r0.es, t)], evs, p, uday)

NextId(evs) == 1 + Len(evs)

\* create_event: the new row, the rows staying ordered by start_time
CreateEvent(evs, s, e, cat, typ, pw) ==
    ByStart(Append(evs, [id |-> NextId(evs), s |-> s, e |-> e, cat |-> cat,
                         locked |-> FALSE, pri |-> "medium", typ |-> typ, pw |-> pw]))

\* preferences of the scheduling runs: the defaults, and a late sleeper
QuarterPrefs == [DefaultPrefs EXCEPT !.rt = 15]

LatePrefs == [QuarterPrefs EXCEPT !.ss = HM(1, 0), !.se = HM(8, 0)]

\* rows already in the store when a handler runs
StoredRows ==
    { <<>>,
      <<Ev(1, 1, HM(10, 0), 120, "Work", FALSE, NoWindow)>>,
      <<Ev(1, 1, HM(9, 0), 540, "Work", FALSE, NoWindow),
        Ev(2, 2, HM(0, 30), 30, "Personal", FALSE, NoWindow)>> }

FloatWindows == {NoWindow, <<HM(21, 0), HM(1, 0)>>, <<HM(0, 30), HM(1, 0)>>,
                 <<HM(10, 0), HM(12, 0)>>}

FloatRequests ==
    [kind : {"floating"},
     dur  : {30, 60},
     es   : {Combine(1, HM(9, 0)), Combine(1, HM(18, 0)), Combine(1, HM(23, 45))},
     dl   : {Combine(1, HM(12, 0)), Combine(1, HM(21, 30)), Combine(2, HM(0, 50)),
             Combine(2, HM(18, 0))},
     pw   : FloatWindows]

InitFloat ==
    /\ pc = "idle"
    /\ events \in StoredRows
    /\ before = <<>>
    /\ prefs \in {QuarterPrefs, LatePrefs}
    /\ today = 1
    /\ policy = "none"
    /\ mods = <<>>
    /\ req \in FloatRequests
    /\ now \in {Combine(1, HM(8, 0)), Combine(1, HM(19, 0))}
    /\ utcDay \in {1, 2}
    /\ curDate = 0
    /\ res = NoResult

\* handle_floating_event: validate, search, commit the best slot
HandleFloatingEvent ==
    /\ pc = "idle"
    /\ req.kind = "floating"
    /\ \E r \in {FloatingResult(req, now, events, prefs, utcDay)} :
           /\ res' = r
           /\ pc' = IF r = Hung THEN "hung" ELSE "done"
           /\ events' = IF r.ok
                        THEN CreateEvent(events, r.s, r.e, "Personal", "floating", req.pw)
                        ELSE events
    /\ UNCHANGED <<before, prefs, today, policy, mods, req, now, utcDay, curDate>>

NextFloat == HandleFloatingEvent

SpecFloat == InitFloat /\ [][NextFloat]_vars

\* C3: a successful handle_floating_event commits a span inside the
\* request's range: earliest_start <= start and end <= deadline
C3_FloatingWithinRange ==
    (pc = "done" /\ req.kind = "floating" /\ res.ok) =>
        (req.es <= res.s /\ res.e <= req.dl)

---------------------------------------------------------------------------
(* scheduling/recurring_handler.py, one occurrence at a time               *)

HorizonDays == 30

\* the four levels of one occurrence on the day d of current_date; the
\* windows are clamped to nothing
RecurringPreferredSlot(d, r, evs, p, uday) ==
    FirstLevel(
        FindAvailableSlot(Combine(d, r.pw[1]),
                          Combine(WindowEndDay(d, r.pw), r.pw[2]),
                          r.dur, evs, p, uday),
        FindAvailableSlot(Combine(d, r.pw[1]) - 60,
                          Combine(WindowEndDay(d, r.pw), r.pw[2]) + 60,
                          r.dur, evs, p, uday),
        FindAvailableSlot(Combine(d, p.ws), Combine(d, p.we), r.dur, evs, p, uday),
        FindAvailableSlot(Combine(d, 0), Combine(d, MaxTimeOfDay), r.dur, evs, p, uday))

WholeDay(s) == [slot |-> s, level |-> IF s = NoSlot THEN "none" ELSE "no_preference"]

\* the slot of the occurrence at current_date cd
RecurringSlot(cd, r, evs, p, uday) ==
    IF r.pw # NoWindow
    THEN RecurringPreferredSlot(Date(cd), r, evs, p, uday)
    ELSE WholeDay(FindAvailableSlot(Combine(Date(cd), 0), Combine(Date(cd), MaxTimeOfDay),
                                    r.dur, evs, p, uday))

\* start_date after the clamp: a start in the past becomes today 00:00
SeriesStart(r, t) == IF r.start < t THEN Combine(Date(t), 0) ELSE r.start

Instance(d, cd, dur) ==
    [s |-> d.slot, e |-> d.slot + dur, occ |-> Date(cd), level |-> d.level]

\* handle_recurring_event up to its loop: validation and the clamp
StartRecurring ==
    /\ pc = "idle"
    /\ req.kind = "recurring"
    /\ IF req.dur <= 0 \/ req.freq <= 0
       THEN /\ pc' = "done"
            /\ res' = Failed
            /\ UNCHANGED curDate
       ELSE /\ pc' = "loop"
            /\ curDate' = SeriesStart(req, now)
            /\ res' = [ok |-> FALSE, inst |-> <<>>, failed |-> 0,
                       start |-> SeriesStart(req, now),
                       end |-> SeriesStart(req, now) + HorizonDays * DayMinutes]
    /\ UNCHANGED <<events, before, prefs, today, policy, mods, req, now, utcDay>>

\* an occurrence before now is skipped
SkipPastOccurrence ==
    /\ pc = "loop"
    /\ curDate <= res.end
    /\ curDate < now
    /\ curDate' = curDate + req.freq * DayMinutes
    /\ UNCHANGED <<pc, events, before, prefs, today, policy, mods, req, now, utcDay, res>>

\* one occurrence: search the levels, commit the instance, step by frequency
ScheduleOccurrence ==
    /\ pc = "loop"
    /\ curDate <= res.end
    /\ curDate >= now
    /\ \E d \in {RecurringSlot(curDate, req, events, prefs, utcDay)} :
         IF d.slot = Diverged
         THEN /\ pc' = "hung"
              /\ UNCHANGED <<events, res, curDate>>
         ELSE /\ pc' = pc
              /\ curDate' = curDate + req.freq * DayMinutes
              /\ IF d.slot # NoSlot
                 THEN /\ events' = CreateEvent(events, d.slot, d.slot + req.dur,
                                               "Personal", "recurring_instance", req.pw)
                      /\ res' = [res EXCEPT !.inst = Append(@, Instance(d, curDate, req.dur))]
                 ELSE /\ events' = events
                      /\ res' = [res EXCEPT !.failed = @ + 1]
    /\ UNCHANGED <<before, prefs, today, policy, mods, req, now, utcDay>>

\* the loop ends past the horizon; success is at least one instance
FinishRecurring ==
    /\ pc = "loop"
    /\ curDate > res.end
    /\ pc' = "done"
    /\ res' = [res EXCEPT !.ok = (res.inst # <<>>)]
    /\ UNCHANGED <<events, before, prefs, today, policy, mods, req, now, utcDay, curDate>>

\* stored rows of the recurring runs: a day-long block before the second
\* day's evening and a block over the first hours of the third day
BlockedRows ==
    <<Ev(1, 1, HM(23, 0), DayMinutes, "Personal", FALSE, NoWindow),
      Ev(2, 3, HM(0, 0), 120, "Personal", FALSE, NoWindow)>>

\* one block over the waking hours of the second day of a night owl
NightRows == <<Ev(1, 2, HM(12, 0), 719, "Personal", FALSE, NoWindow)>>

\* preferences of a night owl: work in the last hour of the day
NightPrefs == [ws |-> HM(23, 0), we |-> HM(23, 59), ss |-> HM(0, 15), se |-> HM(12, 0),
               rt |-> 15]

RecurWindows == {NoWindow, <<HM(0, 15), HM(0, 45)>>, <<HM(0, 15), HM(23, 45)>>,
                 <<HM(10, 0), HM(12, 0)>>, <<HM(22, 0), HM(2, 0)>>}

RecurRequests ==
    [kind  : {"recurring"},
     dur   : {0, 30, 60},
     freq  : {1, 10},
     start : {Combine(0, HM(12, 0)), Combine(1, HM(20, 0)), Combine(2, HM(0, 0))},
     pw    : RecurWindows]

\* the date of the store's clock is the local date or, west of it, one ahead
InitRecur ==
    /\ pc = "idle"
    /\ events \in {<<>>, BlockedRows, NightRows}
    /\ before = <<>>
    /\ prefs \in {QuarterPrefs, LatePrefs, NightPrefs}
    /\ today = 1
    /\ policy = "none"
    /\ mods = <<>>
    /\ req \in RecurRequests
    /\ now \in {Combine(1, HM(8, 0)), Combine(1, HM(19, 0))}
    /\ utcDay \in {1, 2}
    /\ curDate = 0
    /\ res = NoResult

NextRecur ==
    \/ StartRecurring
    \/ SkipPastOccurrence
    \/ ScheduleOccurrence
    \/ FinishRecurring

SpecRecur == InitRecur /\ [][NextRecur]_vars

---------------------------------------------------------------------------
(* Properties of the recurring scheduler                                   *)

RecurringRun == req.kind = "recurring" /\ pc \in {"loop", "done", "hung"} /\ res # Failed

Overlapping(a, b) == a.s < b.e /\ b.s < a.e

Committed(i) ==
    \E k \in 1..Len(events) :
        /\ events[k].typ = "recurring_instance"
        /\ events[k].s = i.s
        /\ events[k].e = i.e

\* C4: the occurrences of one call are taken in increasing date order, every
\* placed instance is in the store before the next occurrence is searched,
\* and no two instances of the call have overlapping spans
C4_InstancesNeverOverlap ==
    RecurringRun =>
        /\ \A i \in 1..Len(res.inst) : Committed(res.inst[i])
        /\ \A i, j \in 1..Len(res.inst) :
               i < j => /\ res.inst[i].occ < res.inst[j].occ
                        /\ ~Overlapping(res.inst[i], res.inst[j])

\* C10: every instance begins on or after 00:00 of its occurrence date and
\* not before the series start, the start date after the clamp
C10_InstanceNotBeforeOccurrence ==
    RecurringRun =>
        \A i \in 1..Len(res.inst) :
            /\ res.inst[i].s >= Combine(res.inst[i].occ, 0)
            /\ res.inst[i].s >= res.start

---------------------------------------------------------------------------
(* score_slot_quality on pairs of candidates, preferred window enabled     *)

ScoreWindows == {<<HM(22, 0), HM(2, 0)>>, <<HM(10, 0), HM(11, 0)>>, <<HM(6, 0), HM(7, 0)>>}

CandidateStarts ==
    {Combine(1, HM(2, 30)), Combine(1, HM(3, 0)), Combine(1, HM(10, 30)),
     Combine(1, HM(12, 0)), Combine(1, HM(20, 0)), Combine(1, HM(23, 0)),
     Combine(5, HM(9, 0)), Combine(20, HM(10, 0)), Combine(20, HM(1, 0))}

ScoreRequests ==
    [kind : {"score"},
     pw   : ScoreWindows,
     a    : CandidateStarts,
     b    : CandidateStarts,
     dur  : {60},
     es   : {Combine(1, HM(0, 0))}]

InitScore ==
    /\ pc = "idle"
    /\ events \in {<<>>}
    /\ before = <<>>
    /\ prefs \in {QuarterPrefs, LatePrefs}
    /\ today = 1
    /\ policy = "none"
    /\ mods = <<>>
    /\ req \in ScoreRequests
    /\ now = Combine(1, HM(8, 0))
    /\ utcDay = 1
    /\ curDate = 0
    /\ res = NoResult

\* the score of one candidate and the part of it that is the ladder
Scored2(s, r, evs, p) ==
    [score  |-> ScoreSlotQuality(s, s + r.dur, evs, p, r.pw, r.es),
     ladder |-> PreferredLadder(Tod(s), r.pw[1], r.pw[2], p)]

ScoreCandidates ==
    /\ pc = "idle"
    /\ req.kind = "score"
    /\ pc' = "done"
    /\ res' = [ok |-> TRUE, a |-> Scored2(req.a, req, events, prefs),
               b |-> Scored2(req.b, req, events, prefs)]
    /\ UNCHANGED <<events, before, prefs, today, policy, mods, req, now, utcDay, curDate>>

NextScore == ScoreCandidates

SpecScore == InitScore /\ [][NextScore]_vars

\* minutes from a time of day to the window, 0 inside it
WindowDistance(t, pw) ==
    IF InWindow(t, pw[1], pw[2]) THEN 0
    ELSE IF pw[2] <= pw[1] THEN Min2(t - pw[2], pw[1] - t)
    ELSE IF t < pw[1] THEN pw[1] - t
    ELSE t - pw[2]

ScoredPair == pc = "done" /\ req.kind = "score"

\* C9: with an enabled preferred window a candidate starting inside the
\* window scores at least as much as one starting outside it, whatever their
\* proximity points, and of two candidates the one nearer to the window never
\* has the smaller ladder value
C9_PreferredWindowDominates ==
    ScoredPair =>
        /\ (InWindow(Tod(req.a), req.pw[1], req.pw[2])
              /\ ~InWindow(Tod(req.b), req.pw[1], req.pw[2]))
           => res.a.score >= res.b.score
        /\ WindowDistance(Tod(req.a), req.pw) <= WindowDistance(Tod(req.b), req.pw)
           => res.a.ladder >= res.b.ladder

\* the ladder value the distance from the preferred window calls for
LadderDue(t, pw, got) ==
    /\ (~InWindow(t, pw[1], pw[2]) /\ WindowDistance(t, pw) <= 60) => got = 35
    /\ (~InWindow(t, pw[1], pw[2]) /\ WindowDistance(t, pw) > 60
          /\ WindowDistance(t, pw) <= 120) => got = 20

\* C26: in preference-dominant mode a candidate starting outside the
\* preferred window at most 60 minutes before its start or after its end
\* gets the ladder value 35, and one at most 120 minutes away gets 20, on
\* both sides of the window and also for overnight windows
C26_LadderByDistance ==
    ScoredPair =>
        /\ LadderDue(Tod(req.a), req.pw, res.a.ladder)
        /\ LadderDue(Tod(req.b), req.pw, res.b.ladder)

---------------------------------------------------------------------------
(* The fallback levels of one occurrence                                   *)

LevelNames == <<"exact", "expanded", "work_hours", "full_day">>

\* the search window of level k for the occurrence day d
LevelWindow(k, d, r, p) ==
    IF k = 1 THEN <<Combine(d, r.pw[1]), Combine(WindowEndDay(d, r.pw), r.pw[2])>>
    ELSE IF k = 2 THEN <<Combine(d, r.pw[1]) - 60,
                         Combine(WindowEndDay(d, r.pw), r.pw[2]) + 60>>
    ELSE IF k = 3 THEN <<Combine(d, p.ws), Combine(d, p.we)>>
    ELSE <<Combine(d, 0), Combine(d, MaxTimeOfDay)>>

\* the rows the store held when the instance i was searched
StoreBefore(i) ==
    SelectSeq(events, LAMBDA row : \A k \in 1..Len(events) :
                  (events[k].typ = "recurring_instance" /\ events[k].s = i.s
                     /\ events[k].e = i.e) => row.id < events[k].id)

LevelSlot(k, i) ==
    FindAvailableSlot(LevelWindow(k, i.occ, req, prefs)[1],
                      LevelWindow(k, i.occ, req, prefs)[2],
                      req.dur, StoreBefore(i), prefs, utcDay)

\* the score find_available_slot gives a start on the store of instance i
SlotScore(s, i) ==
    ScoreSlotQuality(s, s + req.dur, StoreBefore(i), prefs, NoWindow, Combine(i.occ, 0))

LevelOf(i) == CHOOSE k \in 1..4 : LevelNames[k] = i.level

LastPlaced == res.inst[Len(res.inst)]

PlacedWithWindow ==
    RecurringRun /\ req.pw # NoWindow /\ res.inst # <<>>

---------------------------------------------------------------------------
(* find_available_slot, one turn of its while loop at a time                *)

ScanRows == {<<>>, <<Ev(1, 2, HM(6, 0), 30, "Personal", FALSE, NoWindow)>>}

ScanRequests ==
    [kind  : {"find"},
     start : {Combine(1, HM(0, 30)), Combine(1, HM(7, 0)), Combine(1, HM(22, 0))},
     end   : {Combine(1, HM(23, 59)), Combine(3, HM(0, 0))},
     dur   : {30, 540, DayMinutes}]

\* the arguments of the call and what it read from the store
ScanCall ==
    [start |-> req.start, end |-> req.end, dur |-> req.dur, evs |-> events, p |-> prefs,
     uday |-> utcDay]

InitScan ==
    /\ pc = "scan"
    /\ events \in ScanRows
    /\ before = <<>>
    /\ prefs \in {QuarterPrefs, LatePrefs}
    /\ today = 1
    /\ policy = "none"
    /\ mods = <<>>
    /\ req \in ScanRequests
    /\ now = Combine(1, HM(8, 0))
    /\ utcDay = 1
    /\ curDate = 0
    /\ res = [cur |-> RoundToInterval(req.start, prefs.rt), acc |-> <<>>, done |-> FALSE]

\* one turn of the loop, the test of the loop condition included
ScanTurn ==
    /\ pc = "scan"
    /\ ~res.done
    /\ res' = ScanStep(res, ScanCall)
    /\ UNCHANGED <<pc, events, before, prefs, today, policy, mods, req, now, utcDay, curDate>>

\* after the loop: the best candidate is returned
ReturnSlot ==
    /\ pc = "scan"
    /\ res.done
    /\ pc' = "done"
    /\ res' = [slot |-> BestCandidate(res, req.start, req.dur, events, prefs),
               cur |-> res.cur, acc |-> res.acc, done |-> TRUE]
    /\ UNCHANGED <<events, before, prefs, today, policy, mods, req, now, utcDay, curDate>>

NextScan == ScanTurn \/ ReturnSlot

\* the call runs on one thread that is never suspended
SpecScan == InitScan /\ [][NextScan]_vars /\ WF_vars(NextScan)

\* the starts on the rounding grid of the window
GridStarts ==
    {s \in RoundToInterval(req.start, prefs.rt)..(req.end - req.dur) :
        (s - RoundToInterval(req.start, prefs.rt)) % prefs.rt = 0}

OverlapsNoEvent(s) ==
    \A k \in 1..Len(events) : ~(events[k].s < s + req.dur /\ s < events[k].e)

\* C12: find_available_slot returns nothing only when no start on the rounding
\* grid of the window with start + duration <= end_time is free of every event
C12_NotFoundOnlyWhenNoFreeStart ==
    (pc = "done" /\ req.kind = "find" /\ res.slot = NoSlot)
        => ~(\E s \in GridStarts : OverlapsNoEvent(s))

\* C20: the scan of find_available_slot ends for every duration, window, event
\* set and preference, and its position never moves backward
C20_ScanTerminates ==
    /\ <>(pc = "done")
    /\ [][(pc = "scan" /\ pc' = "scan") => res'.cur >= res.cur]_vars

---------------------------------------------------------------------------
(* What the result of smart_optimize_week accounts for                      *)

\* the result has the keys modifications, recommendations, events_modified
\* and message; none of them counts the events that found no slot
ReportedFailures == 0

Unplaced == {e \in Range(Movable(before, today)) : e.id \notin ModIds}

\* C14: no requested placement is dropped silently; every movable event that
\* smart_optimize_week tries to place has a Modification or is counted as a
\* failure in the result
C14_NoSilentDrop ==
    PolicyRan("smart_optimize_week") => Cardinality(Unplaced) <= ReportedFailures

---------------------------------------------------------------------------
(* Requests the handlers must reject, next to requests they accept         *)

ValidateRequests ==
    [kind : {"floating"},
     dur  : {-30, 0, 30},
     es   : {Combine(1, HM(9, 0)), Combine(1, HM(18, 0))},
     dl   : {Combine(1, HM(9, 0)), Combine(1, HM(12, 0)), Combine(2, HM(18, 0))},
     pw   : {NoWindow, <<HM(10, 0), HM(12, 0)>>}]
    \cup
    [kind  : {"recurring"},
     dur   : {-30, 0, 30},
     freq  : {-1, 0, 10},
     start : {Combine(0, HM(12, 0)), Combine(1, HM(20, 0))},
     pw    : {NoWindow, <<HM(10, 0), HM(12, 0)>>}]

InitValidate ==
    /\ pc = "idle"
    /\ events \in StoredRows
    /\ before = <<>>
    /\ prefs = QuarterPrefs
    /\ today = 1
    /\ policy = "none"
    /\ mods = <<>>
    /\ req \in ValidateRequests
    /\ now = Combine(1, HM(8, 0))
    /\ utcDay = 1
    /\ curDate = 0
    /\ res = NoResult

NextValidate ==
    \/ HandleFloatingEvent
    \/ StartRecurring
    \/ SkipPastOccurrence
    \/ ScheduleOccurrence
    \/ FinishRecurring

SpecValidate == InitValidate /\ [][NextValidate]_vars

InvalidRequest ==
    \/ req.kind = "floating" /\ (req.dur <= 0 \/ req.dl <= req.es)
    \/ req.kind = "recurring" /\ (req.dur <= 0 \/ req.freq <= 0)

\* C13: a floating request with duration <= 0 or deadline <= earliest_start,
\* and a recurring request with duration <= 0 or frequency <= 0, fail in one
\* step, before the search loop is entered, and leave the store unchanged
C13_InvalidRequestRejected ==
    [][(pc = "idle" /\ InvalidRequest)
          => (pc' = "done" /\ ~res'.ok /\ events' = events)]_vars

\* a recurring request with a valid duration and frequency 0 has been refused
C13_Witness ==
    /\ pc = "done"
    /\ req.kind = "recurring"
    /\ req.dur > 0
    /\ req.freq <= 0
    /\ ~res.ok

---------------------------------------------------------------------------
(* routes/optimization_routes.py: the request for a week of the store       *)

\* date.weekday(): day 0 is a Monday
Weekday(d) == d % 7

\* the Monday of the requested week
WeekOf(td, offset) == (td - Weekday(td)) + 7 * offset

\* a guard that lets every week through
WeekNeverElapsed(td, offset) == FALSE

\* the week's Sunday is before today
WeekElapsed(td, offset) == WeekOf(td, offset) + 6 < td

\* get_events_in_range: the rows that start inside the week
EventsInRange(evs, sd, ed) ==
    SelectSeq(evs, LAMBDA e : Combine(sd, 0) <= e.s /\ e.s <= Combine(ed, MaxTimeOfDay))

\* reduce_meeting_load only recommends
ReduceMeetingLoad(evs, td, p) == <<>>

ActionNames ==
    {"smart_optimize_week", "consolidate_schedule", "group_deep_work",
     "add_planning_buffer", "reduce_meeting_load", "add_recovery_time",
     "fix_sleep_schedule"}

\* the dispatch on the action name
RunPolicy(name, evs, td, p) ==
    CASE name = "smart_optimize_week"  -> SmartOptimizeWeek(evs, td, p)
      [] name = "consolidate_schedule" -> ConsolidateSchedule(evs, td, p)
      [] name = "group_deep_work"      -> GroupDeepWork(evs, td, p)
      [] name = "add_planning_buffer"  -> AddPlanningBuffer(evs, td, p)
      [] name = "reduce_meeting_load"  -> ReduceMeetingLoad(evs, td, p)
      [] name = "add_recovery_time"    -> AddRecoveryTime(evs, td, p)
      [] name = "fix_sleep_schedule"   -> FixSleepSchedule(evs, td, p)

\* a write-back that ignores the preview flag
CommitAlways(evs, ms, preview) == ByStart(ApplyMods(evs, ms))

\* the write-back of the route: one update_event per Modification, none in
\* preview mode
Commit(evs, ms, preview) == IF preview THEN evs ELSE ByStart(ApplyMods(evs, ms))

\* the rows of one week of the store
WeekRows ==
    { <<>>,
      <<Shapes[1]>>,
      <<Shapes[1], Shapes[2], Shapes[3]>>,
      <<Shapes[4], Shapes[5], Shapes[6]>>,
      <<Shapes[11], Shapes[7]>>,
      <<Shapes[8]>> }

\* the same rows one week later, as other rows of the store
NextWeek(l) ==
    [i \in 1..Len(l) |-> [l[i] EXCEPT !.id = @ + 20, !.s = @ + 7 * DayMinutes,
                                      !.e = @ + 7 * DayMinutes]]

RouteRequests ==
    [kind : {"optimize"}, action : ActionNames, offset : {-1, 0, 1}, preview : BOOLEAN]

\* the store holds last week and this week; today is this week's Monday or
\* Tuesday
InitRoute ==
    /\ pc = "idle"
    /\ events \in {l \o NextWeek(m) : l \in WeekRows, m \in WeekRows}
    /\ before = <<>>
    /\ prefs = DefaultPrefs
    /\ today \in {7, 8}
    /\ policy = "none"
    /\ mods = <<>>
    /\ req \in RouteRequests
    /\ now = Combine(today, HM(8, 0))
    /\ utcDay = today
    /\ curDate = 0
    /\ res = NoResult

\* apply_optimization
ApplyOptimization ==
    /\ pc = "idle"
    /\ req.kind = "optimize"
    /\ before' = events
    /\ IF WeekElapsed(today, req.offset)
       THEN /\ pc' = "refused"
            /\ policy' = "none"
            /\ mods' = <<>>
            /\ events' = events
            /\ res' = [ok |-> FALSE]
       ELSE \E ms \in {RunPolicy(req.action,
                                 EventsInRange(events, WeekOf(today, req.offset),
                                               WeekOf(today, req.offset) + 6),
                                 today, prefs)} :
                /\ pc' = "done"
                /\ policy' = req.action
                /\ mods' = ms
                /\ events' = Commit(events, ms, req.preview)
                /\ res' = [ok |-> TRUE]
    /\ UNCHANGED <<prefs, today, req, now, utcDay, curDate>>

NextRoute == ApplyOptimization

SpecRoute == InitRoute /\ [][NextRoute]_vars

Answered == req.kind = "optimize" /\ pc \in {"done", "refused"}

\* the rows of the store that start in the requested week
TargetWeekRows ==
    {e \in Range(before) :
        /\ Date(e.s) >= (today - (today % 7)) + 7 * req.offset
        /\ Date(e.s) <= (today - (today % 7)) + 7 * req.offset + 6}

\* C15: a request whose week ended before today is refused with an error, no
\* policy runs and the store is left as it was, whatever the action and the
\* preview flag
C15_PastWeekRefused ==
    (Answered /\ (today - (today % 7)) + 7 * req.offset + 6 < today)
        => (pc = "refused" /\ ~res.ok /\ policy = "none" /\ mods = <<>> /\ events = before)

\* a commit request for last week, which holds rows, has been refused
C15_Witness ==
    /\ pc = "refused"
    /\ ~req.preview
    /\ req.offset < 0
    /\ TargetWeekRows # {}

\* C16: with preview = true the route writes nothing, so the store after
\* the request equals the store before it, for every action
C16_PreviewLeavesStore ==
    (Answered /\ req.preview) => events = before

\* a preview that proposed modifications has been answered
C16_Witness ==
    /\ pc = "done"
    /\ req.preview
    /\ mods # <<>>
    /\ \E k \in 1..Len(mods) : mods[k].ns # mods[k].os

---------------------------------------------------------------------------
(* handle_floating_event over a range of more than two weeks               *)

\* the last day whose proximity term is not zero, counted from earliest_start
NearDays == 14

\* the first day's preferred window taken, and the days up to the end of
\* the second week taken as a whole
FarRows ==
    { <<>>,
      <<Ev(1, 1, HM(10, 0), 120, "Work", FALSE, NoWindow)>>,
      <<Ev(1, 1, HM(10, 0), 120, "Work", FALSE, NoWindow),
        Ev(2, 2, 0, NearDays * DayMinutes, "Personal", FALSE, NoWindow)>>,
      <<Ev(1, 2, 0, NearDays * DayMinutes, "Personal", FALSE, NoWindow)>> }

FarRequests ==
    [kind : {"floating"},
     dur  : {30, 60, 120},
     es   : {Combine(1, HM(9, 0)), Combine(1, HM(11, 0))},
     dl   : {Combine(1 + NearDays, HM(18, 0)), Combine(2 + NearDays, HM(18, 0)),
             Combine(3 + NearDays, HM(11, 0))},
     pw   : {<<HM(10, 0), HM(12, 0)>>, <<HM(10, 30), HM(12, 0)>>, <<HM(14, 0), HM(15, 0)>>}]

InitFar ==
    /\ pc = "idle"
    /\ events \in FarRows
    /\ before = <<>>
    /\ prefs = QuarterPrefs
    /\ today = 1
    /\ policy = "none"
    /\ mods = <<>>
    /\ req \in FarRequests
    /\ now = Combine(1, HM(8, 0))
    /\ utcDay = 1
    /\ curDate = 0
    /\ res = NoResult

NextFar == HandleFloatingEvent

SpecFar == InitFar /\ [][NextFar]_vars

\* the rows the call read: the store without the row the call created
StoreAtCall == IF res.ok THEN SelectSeq(events, LAMBDA e : e.id # Len(events)) ELSE events

\* what the day d offered to the call that has returned
DayOffer(d) ==
    FloatingDaySlot(d, [req EXCEPT !.es = Max2(req.es, now)], StoreAtCall, prefs, utcDay)

FirstDay == Date(Max2(req.es, now))

\* the first day offers only a slot of the expanded level, starting outside
\* the preferred window and within an hour of it
FirstDayExpanded ==
    /\ DayOffer(FirstDay).level = "expanded"
    /\ ~InWindow(Tod(DayOffer(FirstDay).slot), req.pw[1], req.pw[2])

\* a day more than 14 days after the first offers a slot inside the window
FarDayExact ==
    \E d \in (FirstDay + NearDays + 1)..Date(req.dl) :
        /\ DayOffer(d).level = "exact"
        /\ InWindow(Tod(DayOffer(d).slot), req.pw[1], req.pw[2])

\* C17: when the first day of the range offers only an expanded-level slot
\* and a day more than 14 days later offers a slot inside the exact preferred
\* window, handle_floating_event schedules the task on the first day
C17_FirstDayOverFarExact ==
    (pc = "done" /\ req.kind = "floating" /\ req.pw # NoWindow
        /\ FirstDayExpanded /\ FarDayExact)
    => (res.ok /\ Date(res.s) = FirstDay)

---------------------------------------------------------------------------
(* OptimizationEngine._find_next_available_slot as a function of its       *)
(* arguments and the engine's event list                                   *)

SlotWindows == {<<HM(10, 0), HM(12, 0)>>, <<HM(20, 0), HM(22, 0)>>, <<HM(7, 0), HM(8, 0)>>}

SlotRequests ==
    [kind : {"slot"},
     dur  : {30, 60},
     d    : {1, 2},
     cat  : {"Work", "Personal", "Meal"},
     excl : {0, 1},
     pw   : SlotWindows]

InitSlot ==
    /\ pc = "idle"
    /\ events \in StoredRows
    /\ before = <<>>
    /\ prefs = DefaultPrefs
    /\ today = 1
    /\ policy = "none"
    /\ mods = <<>>
    /\ req \in SlotRequests
    /\ now = 0
    /\ utcDay = 0
    /\ curDate = 0
    /\ res = NoResult

\* one call of _find_next_available_slot; None is ok = FALSE
FindSlot ==
    /\ pc = "idle"
    /\ req.kind = "slot"
    /\ pc' = "done"
    /\ \E ns \in {FindNextAvailableSlot(events, req.dur, req.d, prefs.ws, prefs.we,
                                        req.excl, req.cat, req.pw, prefs)} :
           res' = [ok |-> ns # NoSlot, s |-> ns]
    /\ UNCHANGED <<events, before, prefs, today, policy, mods, req, now, utcDay, curDate>>

NextSlot == FindSlot

SpecSlot == InitSlot /\ [][NextSlot]_vars

\* the conflict-free starts on the target date whose slot lies entirely inside
\* the exact preferred window
ExactFreeStarts ==
    {t \in Combine(req.d, req.pw[1])..(Combine(req.d, req.pw[2]) - req.dur) :
        /\ (t - Combine(req.d, req.pw[1])) % SlotStride = 0
        /\ HasNoConflicts(events, t, t + req.dur, req.excl)}

\* C18: whenever a conflict-free slot lies entirely inside the exact preferred
\* window on the target date, _find_next_available_slot returns the start of
\* one of those slots, whatever the base scores of the other candidates
C18_PreferredTimeAbsolute ==
    (pc = "done" /\ req.kind = "slot" /\ ExactFreeStarts # {})
    => (res.ok /\ res.s \in ExactFreeStarts)

---------------------------------------------------------------------------
(* smart_optimize_week run twice on the same week, both runs as previews   *)

EvP(id, d, tod, dur, cat, pri, typ, locked) ==
    [Ev(id, d, tod, dur, cat, locked, NoWindow) EXCEPT !.pri = pri, !.typ = typ]

\* events whose start order disagrees with their priority, type and category
\* order; 2 and 3 differ in nothing but their id
OrderShapes ==
    << EvP(1, 1, HM(11, 0), 60, "Work", "high", "fixed", FALSE),
       EvP(2, 1, HM(9, 0), 60, "Work", "medium", "fixed", FALSE),
       EvP(3, 1, HM(9, 0), 60, "Work", "medium", "fixed", FALSE),
       EvP(4, 1, HM(8, 0), 30, "Work", "medium", "floating", FALSE),
       EvP(5, 1, HM(7, 0), 30, "Personal", "medium", "fixed", FALSE),
       EvP(6, 2, HM(10, 0), 60, "Meeting", "low", "recurring", FALSE),
       EvP(7, 1, HM(13, 0), 120, "Work", "medium", "fixed", TRUE) >>

MaxOrdered == 3

\* the rows of the week in start order; rows that share a start come in
\* either order (check_conflicts does not see rows that end before the UTC
\* date, so such rows can be stored)
OrderedLists ==
    {ByStart(l) : l \in {q \in UNION {[1..n -> Range(OrderShapes)] : n \in 1..MaxOrdered} :
                            \A i, j \in 1..Len(q) : i # j => q[i].id # q[j].id}}

InitOrder ==
    /\ pc = "idle"
    /\ events \in OrderedLists
    /\ before = <<>>
    /\ prefs = DefaultPrefs
    /\ today \in {1, 2}
    /\ policy = "none"
    /\ mods = <<>>
    /\ req = NoRequest
    /\ now = 0
    /\ utcDay = 0
    /\ curDate = 0
    /\ res = NoResult

\* apply_optimization(smart_optimize_week, preview): the first run
FirstRun ==
    /\ pc = "idle"
    /\ pc' = "once"
    /\ policy' = "smart_optimize_week"
    /\ before' = events
    /\ mods' = SmartOptimizeWeek(events, today, prefs)
    /\ UNCHANGED <<events, prefs, today, req, now, utcDay, curDate, res>>

\* the same request again, on the store the preview left alone
SecondRun ==
    /\ pc = "once"
    /\ pc' = "done"
    /\ res' = [ok |-> TRUE, mods |-> SmartOptimizeWeek(events, today, prefs)]
    /\ UNCHANGED <<events, before, prefs, today, policy, mods, req, now, utcDay, curDate>>

NextOrder == FirstRun \/ SecondRun

SpecOrder == InitOrder /\ [][NextOrder]_vars

TwoRuns == pc = "done" /\ policy = "smart_optimize_week"

RowIndex(id) == CHOOSE i \in 1..Len(before) : before[i].id = id

RowOf(id) == before[RowIndex(id)]

Rank(e) == <<PriorityOrder(e.pri), TypeOrder(e.typ), CategoryOrder(e.cat), e.s>>

\* lexicographic order of two ranks
RankBefore(x, y) ==
    \E i \in 1..4 : x[i] < y[i] /\ \A j \in 1..(i - 1) : x[j] = y[j]

\* a is processed before b: by rank, and by input position for equal ranks
ProcessedBefore(a, b) ==
    \/ RankBefore(Rank(RowOf(a)), Rank(RowOf(b)))
    \/ Rank(RowOf(a)) = Rank(RowOf(b)) /\ RowIndex(a) < RowIndex(b)

\* minutes on day d when the k-th Modification was about to be made: the
\* locked rows and the Modifications made before it
LoadAt(k, d) ==
    SumSeq([i \in 1..Len(before) |->
                IF before[i].locked /\ Date(before[i].s) = d THEN Dur(before[i]) ELSE 0])
    + SumSeq([j \in 1..(k - 1) |->
                IF Date(mods[j].ns) = d THEN mods[j].ne - mods[j].ns ELSE 0])

WeekOfRun == WeekStart(before)..(WeekStart(before) + WeekLength - 1)

\* C19: two runs of smart_optimize_week on the same events, preferences and
\* date return the same Modification list; the Modifications come in the
\* order priority, type, category, original start, with equal keys in input
\* order, and each goes to the earliest of the least loaded days
C19_Deterministic ==
    TwoRuns =>
        /\ res.mods = mods
        /\ \A k, l \in 1..Len(mods) : k < l => ProcessedBefore(mods[k].id, mods[l].id)
        /\ \A k \in 1..Len(mods) :
               /\ Date(mods[k].ns) \in WeekOfRun
               /\ \A d \in WeekOfRun :
                      \/ LoadAt(k, d) > LoadAt(k, Date(mods[k].ns))
                      \/ LoadAt(k, d) = LoadAt(k, Date(mods[k].ns)) /\ d >= Date(mods[k].ns)

\* two runs over rows with equal keys and with a later start of higher
\* priority, where a later Modification found its least loaded days tied
C19_Witness ==
    /\ TwoRuns
    /\ Len(mods) = 3
    /\ \E k, l \in 1..Len(mods) : k < l /\ Rank(RowOf(mods[k].id)) = Rank(RowOf(mods[l].id))
    /\ \E k, l \in 1..Len(mods) : k < l /\ RowOf(mods[k].id).s > RowOf(mods[l].id).s
    /\ \E d1, d2 \in WeekOfRun : d1 # d2 /\ LoadAt(3, d1) = LoadAt(3, d2)
                                 /\ \A d \in WeekOfRun : LoadAt(3, d) >= LoadAt(3, d1)

---------------------------------------------------------------------------
(* Properties of the day choice and of the simulation of                   *)
(* smart_optimize_week                                                     *)

\* C21: every Modification of smart_optimize_week starts on a day of the
\* 7-day week whose minutes in the simulation (locked events plus the
\* Modifications made before it) were minimal at that moment, the earliest
\* such day when several share the minimum
C21_LeastLoadedDay ==
    PolicyRan("smart_optimize_week") =>
        \A k \in 1..Len(mods) :
            /\ Date(mods[k].ns) \in WeekDays
            /\ \A d \in WeekDays : LoadAt(k, d) >= LoadAt(k, Date(mods[k].ns))
            /\ \A d \in WeekDays :
                   LoadAt(k, d) = LoadAt(k, Date(mods[k].ns)) => d >= Date(mods[k].ns)

\* a run with a locked event in the week whose Modifications went to
\* different days, one of them not the first day of the week
C21_Witness ==
    /\ PolicyRan("smart_optimize_week")
    /\ \E i \in 1..Len(before) : before[i].locked
    /\ Len(mods) >= 2
    /\ \E k \in 1..Len(mods) : Date(mods[k].ns) # WeekStart(before)
    /\ \E k \in 1..Len(mods) : LoadAt(k, WeekStart(before)) > LoadAt(k, Date(mods[k].ns))

\* a week with a locked hour on every day and N identical movable events
MaxSim == 8

LockedHours == {HM(11, 0), HM(14, 0)}

LockedWeek(tod) ==
    [k \in 1..WeekLength |-> Ev(100 + k, k - 1, tod, 60, "Meeting", TRUE, NoWindow)]

InitSim ==
    /\ pc = "idle"
    /\ \E n \in 1..MaxSim, dur \in Durations, cat \in Categories,
          packed \in BOOLEAN, tod \in LockedHours :
            events = ByStart(IdenticalEvents(n, dur, cat, packed, 0) \o LockedWeek(tod))
    /\ before = <<>>
    /\ prefs = DefaultPrefs
    /\ today = 0
    /\ policy = "none"
    /\ mods = <<>>
    /\ req = NoRequest
    /\ now = 0
    /\ utcDay = 0
    /\ curDate = 0
    /\ res = NoResult

NextSim == DoSmartOptimizeWeek

SpecSim == InitSim /\ [][NextSim]_vars

\* the spans [s1, e1) and [s2, e2) share a minute
SpansOverlap(s1, e1, s2, e2) == s1 < e2 /\ s2 < e1

\* C22: in the plan of smart_optimize_week no placed event overlaps a locked
\* event, which keeps its span, or an event placed earlier in the same run
C22_SimulationConsistent ==
    PolicyRan("smart_optimize_week") =>
        /\ \A k \in 1..Len(mods) : \A i \in 1..Len(before) :
               before[i].locked =>
                   /\ before[i].id # mods[k].id
                   /\ ~SpansOverlap(mods[k].ns, mods[k].ne, before[i].s, before[i].e)
        /\ \A k, l \in 1..Len(mods) :
               k < l => ~SpansOverlap(mods[k].ns, mods[k].ne, mods[l].ns, mods[l].ne)

\* a run that placed two events on one day next to that day's locked hour
C22_Witness ==
    /\ PolicyRan("smart_optimize_week")
    /\ Len(mods) = MaxSim
    /\ \E k, l \in 1..Len(mods) : \E i \in 1..Len(before) :
           /\ k < l
           /\ before[i].locked
           /\ Date(mods[k].ns) = Date(mods[l].ns)
           /\ Date(before[i].s) = Date(mods[l].ns)

---------------------------------------------------------------------------
(* fix_sleep_schedule over events around the sleep window                  *)

SleepShapes ==
    << Ev(1, 1, HM(22, 30), 60, "Personal", FALSE, NoWindow),
       Ev(2, 1, HM(23, 30), 60, "Personal", FALSE, NoWindow),
       Ev(3, 1, HM(5, 0), 60, "Meeting", FALSE, NoWindow),
       Ev(4, 1, HM(6, 30), 60, "Meal", FALSE, NoWindow),
       Ev(5, 1, HM(9, 0), 540, "Work", TRUE, NoWindow),
       Ev(6, 1, HM(21, 0), 60, "Recreational", FALSE, NoWindow),
       Ev(7, 2, HM(22, 0), 120, "Work", FALSE, NoWindow) >>

MaxSleepers == 3

SleepLists ==
    {l \in {ByStart(SelectSeq(SleepShapes, LAMBDA e : e.id \in S)) :
                S \in {X \in SUBSET (1..Len(SleepShapes)) : Cardinality(X) \in 1..MaxSleepers}} :
        OverlapFree(l)}

InitSleep ==
    /\ pc = "idle"
    /\ events \in SleepLists
    /\ before = <<>>
    /\ prefs = DefaultPrefs
    /\ today \in 0..2
    /\ policy = "none"
    /\ mods = <<>>
    /\ req = NoRequest
    /\ now = 0
    /\ utcDay = 0
    /\ curDate = 0
    /\ res = NoResult

NextSleep == DoFixSleepSchedule

SpecSleep == InitSleep /\ [][NextSleep]_vars

\* a conflict-free start for the event exists on day d
FreeSlotOn(d, ev) ==
    \E t \in Combine(d, 0)..(Combine(d, MaxTimeOfDay) - Dur(ev)) :
        /\ Tod(t) % SlotStride = 0
        /\ HasNoConflicts(before, t, t + Dur(ev), ev.id)

\* C23: fix_sleep_schedule returns a Modification for every unlocked,
\* non-past event whose span intersects the sleep window, also when it
\* starts before sleep_start and ends inside the window, whenever a free
\* slot exists on its day or on the following day
C23_EverySleepIntersectionMoved ==
    PolicyRan("fix_sleep_schedule") =>
        \A i \in 1..Len(before) :
            (/\ ~before[i].locked
             /\ ~IsPastEvent(before[i], today)
             /\ OverlapsSleep(before[i].s, before[i].e, prefs)
             /\ (FreeSlotOn(Date(before[i].s), before[i])
                 \/ FreeSlotOn(Date(before[i].s) + 1, before[i])))
            => before[i].id \in ModIds

---------------------------------------------------------------------------
(* add_recovery_time over long and short blocks and a varying deficit      *)

RecoveryShapes ==
    << Ev(1, 1, HM(9, 0), 180, "Work", FALSE, NoWindow),
       Ev(2, 2, HM(9, 0), 210, "Work", FALSE, NoWindow),
       Ev(3, 3, HM(9, 0), 240, "Meeting", FALSE, NoWindow),
       Ev(4, 1, HM(13, 0), 150, "Work", FALSE, NoWindow),
       Ev(5, 2, HM(13, 0), 300, "Work", TRUE, NoWindow),
       Ev(6, 4, HM(8, 0), 585, "Personal", FALSE, NoWindow),
       Ev(7, 5, HM(8, 0), 600, "Recreational", FALSE, NoWindow),
       Ev(8, 3, HM(14, 0), 190, "Meeting", FALSE, NoWindow),
       Ev(9, 0, HM(9, 0), 200, "Work", FALSE, NoWindow) >>

MaxBlocks == 3

RecoveryLists ==
    {ByStart(SelectSeq(RecoveryShapes, LAMBDA e : e.id \in S)) :
        S \in {X \in SUBSET (1..Len(RecoveryShapes)) : Cardinality(X) \in 1..MaxBlocks}}

InitRecovery ==
    /\ pc = "idle"
    /\ events \in RecoveryLists
    /\ before = <<>>
    /\ prefs = DefaultPrefs
    /\ today \in 0..1
    /\ policy = "none"
    /\ mods = <<>>
    /\ req = NoRequest
    /\ now = 0
    /\ utcDay = 0
    /\ curDate = 0
    /\ res = NoResult

NextRecovery == DoAddRecoveryTime

SpecRecovery == InitRecovery /\ [][NextRecovery]_vars

\* the row a Modification targets
Target(k) == before[CHOOSE i \in 1..Len(before) : before[i].id = mods[k].id]

\* 600 minutes minus the recreational and personal minutes of the week
InitialDeficit ==
    RecoveryTargetMinutes
    - SumSeq([i \in 1..Len(before) |->
                 IF before[i].cat \in {"Recreational", "Personal"}
                 THEN before[i].e - before[i].s ELSE 0])

Shrunk(k) == mods[k].oe - mods[k].ne

\* the contract of add_recovery_time for targets of at least min minutes
RecoveryContract(min) ==
    PolicyRan("add_recovery_time") =>
        /\ \A k \in 1..Len(mods) :
               /\ ~Target(k).locked
               /\ Date(Target(k).s) >= today
               /\ Target(k).cat \in {"Work", "Meeting"}
               /\ Target(k).e - Target(k).s >= min
               /\ mods[k].ns = Target(k).s
               /\ mods[k].os = Target(k).s
               /\ mods[k].oe = Target(k).e
               /\ 0 < Shrunk(k) /\ Shrunk(k) <= MaxReduction
               /\ mods[k].ne - mods[k].ns >= MinBlockMinutes
        /\ SumSeq([k \in 1..Len(mods) |-> Shrunk(k)]) <= Max2(InitialDeficit, 0)
        /\ InitialDeficit <= 0 => mods = <<>>

---------------------------------------------------------------------------
(* group_deep_work over Work events with small gaps                        *)

DeepShapes ==
    << Ev(1, 1, HM(9, 0), 60, "Work", FALSE, NoWindow),
       Ev(2, 1, HM(10, 3), 60, "Work", FALSE, NoWindow),
       Ev(3, 1, HM(10, 5), 60, "Work", FALSE, NoWindow),
       Ev(4, 1, HM(10, 30), 60, "Work", FALSE, NoWindow),
       Ev(5, 1, HM(11, 40), 45, "Work", FALSE, NoWindow),
       Ev(6, 1, HM(10, 5), 15, "Meeting", FALSE, NoWindow),
       Ev(7, 1, HM(12, 30), 200, "Work", FALSE, NoWindow) >>

MaxDeep == 3

DeepLists ==
    {l \in {ByStart(SelectSeq(DeepShapes, LAMBDA e : e.id \in S)) :
                S \in {X \in SUBSET (1..Len(DeepShapes)) : Cardinality(X) \in 1..MaxDeep}} :
        OverlapFree(l)}

InitDeep ==
    /\ pc = "idle"
    /\ events \in DeepLists
    /\ before = <<>>
    /\ prefs = DefaultPrefs
    /\ today \in 0..2
    /\ policy = "none"
    /\ mods = <<>>
    /\ req = NoRequest
    /\ now = 0
    /\ utcDay = 0
    /\ curDate = 0
    /\ res = NoResult

NextDeep == DoGroupDeepWork

SpecDeep == InitDeep /\ [][NextDeep]_vars

\* C25: every Modification of group_deep_work shifts the later event of an
\* adjacent Work pair earlier: its new start is strictly before its old start
\* and the gap to the preceding Work event becomes smaller than the original
\* gap g, for every 0 < g < 60 minutes, gaps of 5 minutes or less included
C25_DeepWorkShiftsEarlier ==
    PolicyRan("group_deep_work") =>
        \A k \in 1..Len(mods) :
            /\ mods[k].ns < mods[k].os
            /\ \E i \in 1..Len(before) :
                   /\ before[i].cat = "Work"
                   /\ Date(before[i].s) = Date(mods[k].os)
                   /\ 0 < mods[k].os - before[i].e
                   /\ mods[k].os - before[i].e < MergeGapLimit
                   /\ mods[k].ns - before[i].e < mods[k].os - before[i].e

---------------------------------------------------------------------------
(* apply_optimization racing with create_event.  Every database call is a  *)
(* transaction of its own, so the steps of the two requests interleave      *)
(* between calls: the read, each update_event, the conflict check and the   *)
(* insert.                                                                  *)

\* the id SQLite gives the next row
FreshId(evs) == 1 + SumSeq([i \in 1..Len(evs) |-> evs[i].id])

RaceRequests ==
    [kind   : {"race"},
     action : ActionNames,
     s      : {Combine(1, HM(9, 0)), Combine(1, HM(13, 0)), Combine(1, HM(13, 30)),
               Combine(2, HM(13, 0))},
     dur    : {60}]

InitRace ==
    /\ pc = "idle"
    /\ events \in WeekRows
    /\ before = <<>>
    /\ prefs = DefaultPrefs
    /\ today \in 0..1
    /\ policy = "none"
    /\ mods = <<>>
    /\ req \in RaceRequests
    /\ now = Combine(today, HM(8, 0))
    /\ utcDay = today
    /\ curDate = 0
    /\ res = [ok |-> FALSE, creator |-> "new", applied |-> 0, at |-> "none"]

\* apply_optimization up to the policy's result: the week is read and the
\* Modifications are computed from what was read
ReadAndPlan ==
    /\ pc = "idle"
    /\ req.kind = "race"
    /\ pc' = "commit"
    /\ policy' = req.action
    /\ before' = EventsInRange(events, WeekOf(today, 0), WeekOf(today, 0) + 6)
    /\ \E ms \in {RunPolicy(req.action,
                            EventsInRange(events, WeekOf(today, 0), WeekOf(today, 0) + 6),
                            today, prefs)} : mods' = ms
    /\ UNCHANGED <<events, prefs, today, req, now, utcDay, curDate, res>>

\* one turn of the commit loop: update_event writes the new span by id
CommitOne ==
    /\ pc = "commit"
    /\ res.applied < Len(mods)
    /\ events' = ByStart(ApplyMods(events, <<mods[res.applied + 1]>>))
    /\ res' = [res EXCEPT !.applied = res.applied + 1]
    /\ UNCHANGED <<pc, before, prefs, today, policy, mods, req, now, utcDay, curDate>>

\* the commit loop is over and the response is sent
Respond ==
    /\ pc = "commit"
    /\ res.applied = Len(mods)
    /\ pc' = "done"
    /\ UNCHANGED <<events, before, prefs, today, policy, mods, req, now, utcDay, curDate, res>>

\* create_event of a fixed event: _check_conflicts against the live store
CheckCreate ==
    /\ req.kind = "race"
    /\ res.creator = "new"
    /\ res' = [res EXCEPT !.creator =
                  IF CheckConflicts(events, req.s, req.s + req.dur, utcDay)
                  THEN "occupied" ELSE "checked"]
    /\ UNCHANGED <<pc, events, before, prefs, today, policy, mods, req, now, utcDay, curDate>>

\* create_event: the insert that follows a passed check; at records whether
\* the row came between the optimizer's read and its first update
InsertCreate ==
    /\ req.kind = "race"
    /\ res.creator = "checked"
    /\ events' = ByStart(Append(events,
                    [id |-> FreshId(events), s |-> req.s, e |-> req.s + req.dur,
                     cat |-> "Meeting", locked |-> FALSE, pri |-> "medium",
                     typ |-> "fixed", pw |-> NoWindow]))
    /\ res' = [res EXCEPT !.creator = "created", !.ok = TRUE,
                          !.at = IF pc = "commit" /\ res.applied = 0
                                 THEN "between" ELSE "elsewhere"]
    /\ UNCHANGED <<pc, before, prefs, today, policy, mods, req, now, utcDay, curDate>>

NextRace == ReadAndPlan \/ CommitOne \/ Respond \/ CheckCreate \/ InsertCreate

SpecRace == InitRace /\ [][NextRace]_vars

\* C27: when an event is added to the store between the read and the commit
\* of apply_optimization, the commit does not persist a Modification whose
\* new span overlaps the added event: a plan that is consistent on its own
\* leaves no two overlapping events in the store
C27_NoOverlapAfterRace ==
    (/\ pc = "done"
     /\ req.kind = "race"
     /\ res.creator = "created"
     /\ res.at = "between"
     /\ OverlapFree(before)
     /\ OverlapFree(ApplyMods(before, mods)))
    => OverlapFree(events)

---------------------------------------------------------------------------
(* ScheduleState: the occupancy list of one optimization run.  An entry of *)
(* the list is a span with the category and the locked flag that          *)
(* daily_events keeps for it; daily_workload and daily_events are the     *)
(* entries whose start date is one of the days of the range.  The events  *)
(* handed in have no enabled preferred_time.                               *)

\* the days of the range: start_date is 00:00 of day 0, end_date the last
\* minute of day RangeDays - 1
RangeDays == 2

StateDays == [i \in 1..RangeDays |-> i - 1]

RangeStart == Combine(0, 0)

RangeEnd == Combine(RangeDays - 1, MaxTimeOfDay)

Slot(ev, locked) == [s |-> ev.s, e |-> ev.e, cat |-> ev.cat, locked |-> locked]

\* _has_conflict
HasConflict(occ, s, e) ==
    \E i \in 1..Len(occ) : s < occ[i].e /\ e > occ[i].s

\* add_locked_event: the span is appended unconditionally
AddLockedEvent(occ, ev) == Append(occ, Slot(ev, TRUE))

\* daily_events[d]
DailyEvents(occ, d) == SelectSeq(occ, LAMBDA o : Date(o.s) = d)

\* daily_workload[d]
DailyWorkload(occ, d) ==
    SumSeq([i \in 1..Len(DailyEvents(occ, d)) |-> Dur(DailyEvents(occ, d)[i])])

\* _get_waking_hours_windows
WakingHoursWindows(d, p) ==
    IF p.ss > p.se
    THEN << <<Combine(d, p.se), Combine(d, p.ss)>> >>
    ELSE << <<Combine(d, 0), Combine(d, p.ss)>>,
            <<Combine(d, p.se), Combine(d, MaxTimeOfDay)>> >>

\* the search windows of one day, clipped to the range
SearchWindows(ev, d, p) ==
    LET ws == IF ev.cat \in {"Work", "Meeting"}
              THEN << <<Combine(d, p.ws), Combine(d, p.we)>> >>
              ELSE WakingHoursWindows(d, p)
    IN  [i \in 1..Len(ws) |-> <<Max2(ws[i][1], RangeStart), Min2(ws[i][2], RangeEnd)>>]

StateStride == 15

\* the free starts of one window, every 15 minutes from its start
WindowSlots(occ, w, dur) ==
    IF w[1] + dur > w[2] THEN <<>>
    ELSE SelectSeq([k \in 1..((w[2] - w[1] - dur) \div StateStride + 1) |->
                        w[1] + StateStride * (k - 1)],
                   LAMBDA c : ~HasConflict(occ, c, c + dur))

RECURSIVE Flatten(_)
Flatten(ss) == IF ss = <<>> THEN <<>> ELSE Head(ss) \o Flatten(Tail(ss))

\* _find_all_valid_slots: day by day, window by window
FindAllValidSlots(occ, ev, p) ==
    Flatten([i \in 1..RangeDays |->
        Flatten([j \in 1..Len(SearchWindows(ev, StateDays[i], p)) |->
            WindowSlots(occ, SearchWindows(ev, StateDays[i], p)[j], Dur(ev))])])

TotalWorkload(occ) == SumSeq([i \in 1..RangeDays |-> DailyWorkload(occ, StateDays[i])])

\* ScheduleState._score_slot.  The balance term is 40 - 20 * load * days /
\* total when the total is positive, so the scores of one call are compared
\* after multiplication by that total
StateScoreSlot(occ, ev, s) ==
    LET d      == Date(s)
        total  == TotalWorkload(occ)
        h      == Tod(s) \div 60
        chrono == IF ev.cat \in {"Work", "Meeting"} /\ ev.pri = "high"
                  THEN IF 9 <= h /\ h <= 12 THEN 15
                       ELSE IF 13 <= h /\ h <= 15 THEN 10 ELSE 5
                  ELSE 10
        near   == IF ev.typ = "recurring_instance"
                  THEN IF Abs(s - ev.s) <= 60 THEN 10
                       ELSE IF Abs(s - ev.s) <= 180 THEN 7
                       ELSE IF Abs(s - ev.s) <= 360 THEN 4 ELSE 2
                  ELSE 5
        same   == Len(SelectSeq(DailyEvents(occ, d), LAMBDA o : o.cat = ev.cat))
        group  == IF same > 0 THEN Min2(10, same * 3) ELSE 0
    IN  IF total > 0
        THEN Max2(0, 40 * total - 20 * DailyWorkload(occ, d) * RangeDays)
                 + (chrono + near + group) * total
        ELSE 40 + chrono + near + group

\* the slot of the highest score, the earliest found among equals
BestSlot(occ, ev, slots) ==
    slots[FirstMaxIdx([i \in 1..Len(slots) |-> [score |-> StateScoreSlot(occ, ev, slots[i])]])]

\* schedule_batch_with_distribution: st is the occupancy list with the two
\* result lists
RECURSIVE BatchLoop(_, _, _, _)
BatchLoop(batch, i, st, p) ==
    IF i > Len(batch) THEN st
    ELSE LET ev    == batch[i]
             slots == FindAllValidSlots(st.occ, ev, p)
         IN  IF slots = <<>>
             THEN BatchLoop(batch, i + 1, [st EXCEPT !.failed = Append(@, ev)], p)
             ELSE LET b == BestSlot(st.occ, ev, slots)
                  IN  BatchLoop(batch, i + 1,
                          [st EXCEPT !.occ = Append(@, Slot([ev EXCEPT !.s = b, !.e = b + Dur(ev)], FALSE)),
                                     !.scheduled = Append(@, Mod(ev, b, b + Dur(ev)))],
                          p)

ScheduleBatchWithDistribution(occ, batch, p) ==
    BatchLoop(batch, 1, [occ |-> occ, scheduled |-> <<>>, failed |-> <<>>], p)

\* locked anchors: two that share half an hour, and one that fills the work
\* hours of day 1
LockedShapes ==
    << EvP(21, 0, HM(10, 0), 60, "Meeting", "medium", "fixed", TRUE),
       EvP(22, 0, HM(10, 30), 60, "Work", "medium", "fixed", TRUE),
       EvP(23, 1, HM(9, 0), 540, "Work", "medium", "fixed", TRUE),
       EvP(24, 0, HM(14, 0), 120, "Personal", "medium", "fixed", TRUE) >>

BatchShapes ==
    << EvP(31, 0, HM(9, 0), 60, "Work", "medium", "fixed", FALSE),
       EvP(32, 0, HM(9, 0), 540, "Work", "high", "fixed", FALSE),
       EvP(33, 1, HM(20, 0), 60, "Personal", "medium", "recurring_instance", FALSE),
       EvP(34, 0, HM(13, 0), 30, "Meeting", "high", "floating", FALSE),
       EvP(35, 1, HM(9, 0), 600, "Meeting", "low", "fixed", FALSE) >>

MaxBatch == 2

MaxCalls == 3

Batches ==
    {q \in UNION {[1..n -> Range(BatchShapes)] : n \in 1..MaxBatch} :
        \A i, j \in 1..Len(q) : i # j => q[i].id # q[j].id}

NoBatch == [batch |-> <<>>, scheduled |-> <<>>, failed |-> <<>>, calls |-> 0, last |-> "none"]

InitState ==
    /\ pc = "idle"
    /\ events = <<>>
    /\ before = <<>>
    /\ prefs = DefaultPrefs
    /\ today = 0
    /\ policy = "none"
    /\ mods = <<>>
    /\ req = [kind |-> "state"]
    /\ now = 0
    /\ utcDay = 0
    /\ curDate = 0
    /\ res = NoBatch

\* state.add_locked_event(event)
DoAddLockedEvent ==
    /\ req.kind = "state"
    /\ res.calls < MaxCalls
    /\ \E i \in 1..Len(LockedShapes) :
          /\ \A k \in 1..Len(events) : events[k] # Slot(LockedShapes[i], TRUE)
          /\ events' = AddLockedEvent(events, LockedShapes[i])
    /\ before' = events
    /\ res' = [res EXCEPT !.calls = @ + 1, !.last = "locked"]
    /\ UNCHANGED <<pc, prefs, today, policy, mods, req, now, utcDay, curDate>>

\* state.schedule_batch_with_distribution(batch)
DoScheduleBatch ==
    /\ req.kind = "state"
    /\ res.calls < MaxCalls
    /\ \E batch \in Batches :
          \E st \in {ScheduleBatchWithDistribution(events, batch, prefs)} :
              /\ events' = st.occ
              /\ res' = [batch |-> batch, scheduled |-> st.scheduled, failed |-> st.failed,
                         calls |-> res.calls + 1, last |-> "batch"]
    /\ before' = events
    /\ UNCHANGED <<pc, prefs, today, policy, mods, req, now, utcDay, curDate>>

NextState == DoAddLockedEvent \/ DoScheduleBatch

SpecState == InitState /\ [][NextState]_vars

\* no two spans of the occupancy list share a minute
Disjoint(occ) ==
    \A i, j \in 1..Len(occ) : i < j => ~SpansOverlap(occ[i].s, occ[i].e, occ[j].s, occ[j].e)

\* every span the last batch appended is clear of the spans before it in
\* the list
AddedClear ==
    \A k \in (Len(before) + 1)..Len(events) :
        \A j \in 1..(k - 1) :
            ~SpansOverlap(events[k].s, events[k].e, events[j].s, events[j].e)

\* every event of the last batch is in exactly one of the two result lists
ExactlyOneResult ==
    \A i \in 1..Len(res.batch) :
        LET id == res.batch[i].id
        IN  Cardinality({k \in 1..Len(res.scheduled) : res.scheduled[k].id = id})
              + Cardinality({k \in 1..Len(res.failed) : res.failed[k].id = id}) = 1

\* C28: after any sequence of add_locked_event and
\* schedule_batch_with_distribution calls the occupancy list holds
\* non-overlapping intervals; every interval a batch adds overlaps no
\* interval already in the list, and every event of a batch ends in exactly
\* one of the scheduled and failed results
C28_OccupancyNonOverlapping ==
    req.kind = "state" =>
        /\ Disjoint(events)
        /\ (res.last = "batch" => (AddedClear /\ ExactlyOneResult))

\* the part of C28 that is about schedule_batch_with_distribution alone
BatchKeepsClear ==
    (req.kind = "state" /\ res.last = "batch") => (AddedClear /\ ExactlyOneResult)

\* a batch that placed one event and failed another, on a list that holds
\* a locked span
BatchMixed ==
    /\ req.kind = "state"
    /\ res.last = "batch"
    /\ res.scheduled # <<>>
    /\ res.failed # <<>>
    /\ \E k \in 1..Len(before) : before[k].locked

---------------------------------------------------------------------------
(* Where the policies move events to, relative to the engine's today       *)

RelocatingPolicies ==
    {"smart_optimize_week", "consolidate_schedule", "add_planning_buffer", "fix_sleep_schedule"}

\* C29: no Modification of smart_optimize_week, consolidate_schedule,
\* add_planning_buffer or fix_sleep_schedule has a new_start dated before
\* the engine's today, also when the week holds past or locked events
\* dated earlier
C29_NoMoveIntoPast ==
    (pc = "done" /\ policy \in RelocatingPolicies) =>
        \A k \in 1..Len(mods) : Date(mods[k].ns) >= today

MovingPolicies == RelocatingPolicies \cup {"group_deep_work"}

\* the six policies on the weeks of the general runs, of the deep-work runs,
\* of the recovery runs and of the sleep runs
InitMove == InitOpt \/ InitDeep \/ InitRecovery \/ InitSleep

NextMove == NextOpt

SpecMove == InitMove /\ [][NextMove]_vars

\* C30: every Modification of smart_optimize_week, consolidate_schedule,
\* group_deep_work, add_planning_buffer and fix_sleep_schedule keeps the
\* event's duration (new_end - new_start = old_end - old_start), so only
\* add_recovery_time changes a duration; and no run of any policy returns
\* two Modifications of the same event id
C30_RelocationKeepsDuration ==
    pc = "done" =>
        /\ policy \in MovingPolicies =>
              \A k \in 1..Len(mods) : mods[k].ne - mods[k].ns = mods[k].oe - mods[k].os
        /\ \A j, k \in 1..Len(mods) : j # k => mods[j].id # mods[k].id

\* a relocating run that returned two Modifications, one of them a real
\* move of its event
C30_Witness ==
    /\ pc = "done"
    /\ policy \in MovingPolicies
    /\ Len(mods) >= 2
    /\ \E k \in 1..Len(mods) : mods[k].ns # mods[k].os

\* add_recovery_time does change a duration
RecoveryShortens ==
    /\ PolicyRan("add_recovery_time")
    /\ \E k \in 1..Len(mods) : mods[k].ne - mods[k].ns < mods[k].oe - mods[k].os

=============================================================================
